---- MODULE Spec2Model ----
(***************************************************************************)
(* Model of bash/generator/create-bash-script.py: the generator of Bash    *)
(* script templates.  One run of the program is modelled from the parsing  *)
(* of the command line to the dump of the configuration.                   *)
(*                                                                         *)
(* Conventions.                                                            *)
(*  - Python's None is the empty sequence <<>>; an optional value that is  *)
(*    present is either a path or a one-element sequence <<v>>.            *)
(*  - A path is the pair <<directory, basename>>.                          *)
(*  - A line of text is the record [ind, txt]: the number of its leading   *)
(*    spaces and the rest of the line.  A text block is the sequence of    *)
(*    the segments that "\n" separates, so that splitlines and dedent can  *)
(*    be modelled by what they do.                                         *)
(*  - The typed answer of the operator is a sequence of one-character      *)
(*    strings.                                                             *)
(*  - The non-ASCII characters of the generated text are transliterated:   *)
(*    the curly quotes are `` and '', the ellipsis is three dots.          *)
(***************************************************************************)
EXTENDS Integers, Sequences, FiniteSets, TLC

VARIABLES
    pc,             \* position of the run in the __main__ block
    args,           \* the argparse Namespace
    conf,           \* the global FileConfig (<<>> before it is created)
    main_writer,    \* the global main Writer (<<>> before it is created)
    utils_writer,   \* the global utility Writer (<<>> when None or not yet set)
    qpos,           \* the question being asked: <<group, index in the group>>
    prompts,        \* number of input() calls already made for that question
    changes,        \* number of answers that departed from the default so far
    asked,          \* the questions displayed so far, in order
    fs,             \* the paths that exist in the file system
    probes,         \* the paths given to os.path.exists so far, in order
    outputs,        \* what the run has written: files and standard-output blurbs
    error,          \* the exception that ended the run (<<>> if none)
    exit_status,    \* the exit status of the process (<<>> while it runs)
    run,            \* 1 for the first run, 2 for the run that repeats it
    prev            \* what the first run left to the second one (<<>> if none)

vars == <<pc, args, conf, main_writer, utils_writer, qpos, prompts, changes,
          asked, fs, probes, outputs, error, exit_status, run, prev>>

----------------------------------------------------------------------------
(* Bounds of the model.                                                    *)

\* Largest number of times one question is prompted again after an answer
\* that is not valid.
MaxReprompts == 1

\* Largest number of questions the operator answers with something else than
\* the default.
MaxChanges == 1

\* Largest n such that common-n.sh may exist before the run.
MaxSuffix == 2

\* Largest number of lines of a text block given to add_lines alone.
MaxLines == 3

\* Largest depth of the Writer that add_lines alone is given.
MaxDepth == 2

\* Largest number of characters typed at a question asked alone.
MaxTyped == 2

----------------------------------------------------------------------------
(* Constants of the program.                                               *)

None == <<>>

Some(v) == <<v>>

STDOUT_PLACEHOLDER == <<"", "-">>

COMMON_BASENAME_WITHOUT_EXTENSION == "common"

COMMON_BASENAME_EXTENSION == ".sh"

COMMON_BASENAME == COMMON_BASENAME_WITHOUT_EXTENSION \o COMMON_BASENAME_EXTENSION

devnull == <<"/dev", "null">>

\* The fields of FileConfig, in declaration order.
FieldNames ==
    << "use_env", "greadlink", "logging_utils", "set_e", "set_x", "err_trap",
       "exit_trap", "main", "options", "positionals", "usage", "dry", "utils" >>

FieldSet == {FieldNames[i] : i \in DOMAIN FieldNames}

\* The annotated type of every field.
FieldType ==
    [ use_env |-> "bool", greadlink |-> "bool", logging_utils |-> "bool",
      set_e |-> "bool", set_x |-> "bool", err_trap |-> "int",
      exit_trap |-> "int", main |-> "bool", options |-> "bool",
      positionals |-> "bool", usage |-> "int", dry |-> "bool", utils |-> "int" ]

\* FileConfig(): every field at its default.
FileConfig ==
    [ use_env |-> TRUE, greadlink |-> FALSE, logging_utils |-> TRUE,
      set_e |-> FALSE, set_x |-> FALSE, err_trap |-> 0, exit_trap |-> 0,
      main |-> FALSE, options |-> TRUE, positionals |-> TRUE, usage |-> 1,
      dry |-> FALSE, utils |-> 0 ]

\* The values LevelOfDetails declares.
LevelOfDetails == {"batch", "default", "advanced", "full"}

LEVEL_OF_DETAILS_ALIASES ==
    [ b |-> "batch", d |-> "default", a |-> "advanced", f |-> "full" ]

\* argparse's default for -i / --indent-size.
DefaultIndentSize == 4

----------------------------------------------------------------------------
(* JSON and the configuration.                                             *)

\* A JSON text is modelled by its members, in order: <<key, literal>> pairs
\* where the literal is the token of the text ("true", "false", "2").

\* json.dumps of one value: a bool gives true / false, an int its digits.
JsonLiteral(type, v) ==
    IF type = "bool" THEN (IF v THEN "true" ELSE "false") ELSE ToString(v)

\* json.loads of one token.
JsonValue(tok) ==
    CASE tok = "true" -> TRUE
      [] tok = "false" -> FALSE
      [] OTHER -> CHOOSE n \in 0..9 : ToString(n) = tok

\* asdict with the last field forgotten.
asdict_without_last(c) ==
    [i \in 1..(Len(FieldNames) - 1) |-> <<FieldNames[i], c[FieldNames[i]]>>]

\* dataclasses.asdict(conf): the fields in declaration order.
asdict(c) == [i \in DOMAIN FieldNames |-> <<FieldNames[i], c[FieldNames[i]]>>]

\* json.dumps(conf_as_dict, indent=...): the indent only changes white space.
json_dumps(d, indent) ==
    [ indent |-> indent,
      members |-> [i \in DOMAIN d |->
                     <<d[i][1], JsonLiteral(FieldType[d[i][1]], d[i][2])>>] ]

\* json.loads(text): a dict, where the last occurrence of a key wins.
json_loads(text) ==
    LET m == text.members
        keys == {m[i][1] : i \in DOMAIN m}
        last(k) == CHOOSE i \in DOMAIN m :
                      /\ m[i][1] = k
                      /\ \A j \in DOMAIN m : m[j][1] = k => j <= i
    IN  [k \in keys |-> JsonValue(m[last(k)][2])]

\* load_config that drops the keys that are no field instead of failing.
load_config_lenient(path_or_json) ==
    LET data == json_loads(path_or_json.text)
    IN  [ ok |-> TRUE,
          result |-> [k \in FieldSet |->
                        IF k \in DOMAIN data THEN data[k] ELSE FileConfig[k]] ]

\* load_config, lines 270-280: FileConfig(**data) raises TypeError on a key
\* that is no field, and the note added to it lists the valid keys; a field
\* that is absent keeps its default.
load_config(path_or_json) ==
    LET data == json_loads(path_or_json.text)
    IN  IF DOMAIN data \subseteq FieldSet
        THEN [ ok |-> TRUE,
               result |-> [k \in FieldSet |->
                             IF k \in DOMAIN data THEN data[k] ELSE FileConfig[k]] ]
        ELSE [ ok |-> FALSE,
               error |-> [ type |-> "TypeError",
                           note |-> <<"Valid keys are: ", FieldNames>> ] ]

----------------------------------------------------------------------------
(* The Writer and its primitives.                                          *)

\* Writer.__init__, lines 40-51.  lowest_indent_steps is not an attribute of
\* the class: it is the history of current_indent_steps, the least value it
\* has had, kept so that the depth between two calls can be spoken of.
Writer(indent_size, file) ==
    [ output_lines |-> <<>>, current_indent_steps |-> 0,
      indent_size |-> indent_size, file |-> file,
      lowest_indent_steps |-> 0 ]

\* A line with n leading spaces followed by s.
L(n, s) == [ind |-> n, txt |-> s]

\* add_line's missing argument.
NoLine == L(0, "")

\* is_blank: nothing is left of the line once its white space is stripped.
is_blank(s) == s.txt = ""

\* n * " " is the empty string when n is negative.
Spaces(n) == IF n < 0 THEN 0 ELSE n

\* indent(levels, writer).
indent(w, levels) ==
    [w EXCEPT !.current_indent_steps = @ + levels]

\* unindent that leaves the depth as it is.
unindent_nothing(w, levels) == w

\* unindent(levels, writer), lines 432-436.
unindent(w, levels) ==
    [w EXCEPT !.current_indent_steps = @ - levels,
              !.lowest_indent_steps =
                 IF w.current_indent_steps - levels < @
                 THEN w.current_indent_steps - levels ELSE @]

\* add_line(new_line, writer), lines 459-470.
add_line(w, new_line) ==
    LET stored ==
          IF is_blank(new_line)
          THEN L(0, "")
          ELSE L(Spaces(w.current_indent_steps * w.indent_size) + new_line.ind,
                 new_line.txt)
    IN  [w EXCEPT !.output_lines = Append(@, stored)]

\* textwrap.dedent: the lines of white space alone become empty, and the
\* margin common to the other lines is removed.
dedent(text) ==
    LET full == {i \in DOMAIN text : text[i].txt # ""}
        margin == IF full = {} THEN 0
                  ELSE CHOOSE m \in {text[i].ind : i \in full} :
                          \A i \in full : m <= text[i].ind
    IN  [i \in DOMAIN text |->
           IF i \in full THEN L(text[i].ind - margin, text[i].txt) ELSE L(0, "")]

\* str.splitlines: the segment after the last "\n" is a line unless it is
\* empty.
splitlines(text) ==
    IF text # <<>> /\ text[Len(text)] = L(0, "")
    THEN SubSeq(text, 1, Len(text) - 1)
    ELSE text

\* add_lines that registers the lines with the indentation they have.
convert_nothing(line, indent_size) == line

\* re.sub(r'^( {4})+', to_be_applied, line): every leading group of four
\* spaces becomes one indentation step of the writer.
convert(line, indent_size) ==
    L((line.ind \div 4) * indent_size + (line.ind % 4), line.txt)

RECURSIVE add_each(_, _)
\* The loop of add_lines, lines 497-503.
add_each(w, lines) ==
    IF lines = <<>> THEN w
    ELSE add_each(add_line(w, convert(Head(lines), w.indent_size)), Tail(lines))

\* add_lines(text, keep_indentation, writer), lines 492-503.
add_lines(w, text, keep_indentation) ==
    add_each(w, splitlines(IF keep_indentation THEN text ELSE dedent(text)))

\* The two global Writers, as the fragment generators see them.
Writers(main, utils) == [main |-> main, utils |-> utils]

\* The calls a fragment generator makes, in order.  "writer" names the
\* global Writer the call is given: main_writer by default.
AddLine(line) == [op |-> "add_line", line |-> line, writer |-> "main"]

AddLines(text, keep) ==
    [op |-> "add_lines", text |-> text, keep |-> keep, writer |-> "main"]

Indent(levels) == [op |-> "indent", levels |-> levels, writer |-> "main"]

Unindent(levels) == [op |-> "unindent", levels |-> levels, writer |-> "main"]

SetIndentSize(n) == [op |-> "indent_size", size |-> n, writer |-> "main"]

\* f(..., **writer_config): the call is given the writer of writer_config.
To(writer_config, call) == [call EXCEPT !.writer = writer_config]

\* One call applied to the Writer it names.
Apply(w, call) ==
    CASE call.op = "add_line" -> add_line(w, call.line)
      [] call.op = "add_lines" -> add_lines(w, call.text, call.keep)
      [] call.op = "indent" -> indent(w, call.levels)
      [] call.op = "unindent" -> unindent(w, call.levels)
      [] call.op = "indent_size" -> [w EXCEPT !.indent_size = call.size]

RECURSIVE Do(_, _)
\* The calls of a fragment generator, made one after the other.
Do(ws, calls) ==
    IF calls = <<>> THEN ws
    ELSE LET c == Head(calls)
         IN  Do([ws EXCEPT ![c.writer] = Apply(@, c)], Tail(calls))

----------------------------------------------------------------------------
(* The fragment generators.  Each one is given the frozen configuration c  *)
(* and the two Writers ws, and gives back the Writers after its calls.     *)

\* add_line(s): a line of the main Writer.
Ln(s) == AddLine(L(0, s))

\* add_line(): a blank line of the main Writer.
Blank == AddLine(NoLine)

\* os.path.dirname and os.path.basename.
dirname(path) == path[1]

basename(path) == path[2]

\* os.path.join(d, name).
join(d, name) == <<d, name>>

\* get_shebang, lines 678-683.
get_shebang(c) ==
    IF c.use_env THEN "#! /usr/bin/env bash" ELSE "#! /bin/bash"

\* part_shebang, lines 686-688.
part_shebang(c, ws) ==
    Do(ws, << Ln(get_shebang(c)), Blank >>)

\* part_flags, lines 691-702.
part_flags(c, ws) ==
    LET flags == (IF c.set_e THEN "e" ELSE "")
                 \o (IF c.err_trap = 2 THEN "E" ELSE "")
                 \o (IF c.set_x THEN "x" ELSE "")
    IN  IF flags # "" THEN Do(ws, << Ln("set -" \o flags), Blank >>) ELSE ws

\* part_basedir, lines 705-720.
part_basedir(c, ws) ==
    Do(ws,
       (IF c.greadlink
        THEN << AddLines(
                  << L(8, "if type greadlink &> /dev/null"),
                     L(8, "then"),
                     L(12, "BASEDIR=$(dirname \"$(greadlink -f -- \"$0\")\")"),
                     L(8, "else"),
                     L(12, "BASEDIR=$(dirname \"$(readlink -f -- \"$0\")\")"),
                     L(8, "fi") >>,
                  FALSE) >>
        ELSE << AddLine(
                  L(0, "BASEDIR=$(dirname \"$(readlink -f -- \"$0\")\")")) >>)
       \o
       << AddLine(
            L(0, "# Adapt or remove the ROOTDIR definition depending")),
          AddLine(
            L(0, "# on the depth of this script within the project.")),
          AddLine(
            L(0, "ROOTDIR=$(dirname \"$BASEDIR\")")),
          AddLine(
            L(0, "readonly BASEDIR ROOTDIR")),
          Blank >>)

\* part_constants, lines 723-726.
part_constants(c, ws) ==
    IF c.positionals
    THEN Do(ws, << AddLine(
                     L(0, "readonly DEFAULT_BAR=/the/default/bar")),
                   Blank >>)
    ELSE ws

\* The main Writer whatever the configuration.
writer_config_main(c) == "main"

\* writer_config of part_logging_utils and part_dry_run_utils, lines 733 and
\* 795: the main Writer when the utilities are embedded, else utils_writer.
writer_config(c) == IF c.utils = 0 THEN "main" ELSE "utils"

\* part_logging_utils, lines 729-783.
part_logging_utils(c, ws) ==
    IF ~c.logging_utils THEN ws
    ELSE
    LET wc == writer_config(c) IN
    Do(ws,
       << To(wc, AddLines(
            << L(4, "# For internal use via the logging functions below."),
               L(4, "#"),
               L(4, "# $1    String added between the program name and the message,"),
               L(4, "#       typically to specify the log level."),
               L(4, "# $2    Printf-style format string."),
               L(4, "# $3...n  Arguments for printf."),
               L(4, "_f_log() {"),
               L(8, "local prog") >>,
            FALSE)),
          To(wc, Indent(1)),
          To(wc, AddLine(
            IF c.dry
            THEN
            L(0, "prog=$(basename \"$0\"):${DRY:+ [DRY RUN]}")
            ELSE
            L(0, "prog=$(basename \"$0\"):")
            )),
          To(wc, Unindent(1)),
          To(wc, AddLines(
            << L(8, "printf \"%s %s${2}\\n\" \"$prog\" \"$1\" \"${@:3}\""),
               L(4, "}"),
               L(0, ""),
               L(4, "# $1    Printf-style format string."),
               L(4, "# $2...n  Arguments for printf."),
               L(4, "log() {"),
               L(8, "_f_log '   INFO  ' \"$@\""),
               L(4, "}"),
               L(0, ""),
               L(4, "# $1    Printf-style format string."),
               L(4, "# $2...n  Arguments for printf."),
               L(4, "warn() {"),
               L(8, "_f_log 'WARNING  ' \"$@\" >&2"),
               L(4, "}"),
               L(0, ""),
               L(4, "# $1    Printf-style format string."),
               L(4, "# $2...n  Arguments for printf."),
               L(4, "err() {"),
               L(8, "_f_log '  ERROR  ' \"$@\" >&2"),
               L(4, "}"),
               L(0, ""),
               L(4, "# Print a command before running it."),
               L(4, "# (This function takes care of running it)."),
               L(4, "#"),
               L(4, "# $@    The words making up the command to run."),
               L(4, "log_and_run() {"),
               L(8, "log 'Running: %s' \"${*@Q}\""),
               L(8, "\"$@\""),
               L(4, "}"),
               L(0, ""),
               L(4, "") >>,
            FALSE)) >>)

\* part_dry_run_utils, lines 786-818.
part_dry_run_utils(c, ws) ==
    IF ~c.dry THEN ws
    ELSE
    LET logging_command ==
          IF c.logging_utils
          THEN "log 'Would have run: %s' \"${*@Q}\""
          ELSE "printf '[DRY RUN] Would have run: %s\\n' \"${*@Q}\""
        wc == writer_config(c)
    IN
    Do(ws,
       << To(wc, AddLines(
            << L(8, "# Returns with 0 status if and only if"),
               L(8, "# the dry run mode is currently activated."),
               L(8, "is_dry_run() {"),
               L(12, "[[ $DRY ]]"),
               L(8, "}"),
               L(0, ""),
               L(8, "# Only run a command if dry run mode is not activated."),
               L(8, "# In dry run mode, log the command instead to show what"),
               L(8, "# would have been run in a normal context."),
               L(8, "#"),
               L(8, "# $@    The words making up the command to potentially run."),
               L(8, "run_if_not_dry() {"),
               L(12, "if is_dry_run"),
               L(12, "then"),
               L(16, logging_command),
               L(12, "else"),
               L(16, "\"$@\""),
               L(12, "fi"),
               L(8, "}"),
               L(0, ""),
               L(8, "") >>,
            FALSE)) >>)

\* The line that sources the utility file, lines 828-832.
SourcingLine(c, lib_basename) ==
    ". \"${BASEDIR:?}/" \o lib_basename \o "\""
    \o (IF ~c.set_e THEN " || exit" ELSE "")

\* part_libraries, lines 821-834.  utils_writer is never None when utils is
\* not 0, so the RuntimeError of line 826 is not raised.
part_libraries(c, ws) ==
    IF c.utils = 0 THEN ws
    ELSE
    LET lib_basename == IF ws.utils.file # None
                        THEN basename(ws.utils.file) ELSE COMMON_BASENAME
    IN  Do(ws, << Ln(SourcingLine(c, lib_basename)), Blank >>)

\* part_traps_definition, lines 837-874.  exit_trap is in 0..3, so the
\* ValueError of line 871 is not raised.
part_traps_definition(c, ws) ==
    Do(ws,
       (IF c.err_trap # 0
        THEN << AddLines(
                  << L(8, "# Executed when a command fails, with the same exceptions as for ``set -e''."),
                     L(8, "# See ``trap'' documentation in ``man bash'' for details."),
                     L(8, "err_trap() {") >>,
                  FALSE),
                Indent(1),
                AddLine(
                  IF c.logging_utils
                  THEN
                  L(0, "err 'An error occurred.'")
                  ELSE
                  L(0, "printf '%s: An error occurred.\\n' \"$(basename \"$0\")\" >&2")
                  ),
                Unindent(1),
                AddLine(
                  L(0, "}")),
                Blank >>
        ELSE <<>>)
       \o
       (IF c.exit_trap # 0
        THEN << AddLines(
                  << L(8, "# Executed upon exit, regardless of the cause."),
                     L(8, "exit_trap() {") >>,
                  FALSE),
                Indent(1),
                AddLine(
                  CASE c.exit_trap = 1 /\ c.logging_utils ->
                  L(0, "log 'Exiting.'")
                    [] c.exit_trap = 1 /\ ~c.logging_utils ->
                  L(0, "printf '%s: Exiting.\\n' \"$(basename \"$0\")\"")
                    [] c.exit_trap = 2 ->
                  L(0, "rm -rf -- \"$_temp_dir\"")
                    [] c.exit_trap = 3 ->
                  L(0, "rm -rf -- \"${_to_be_deleted[@]}\"")
                  ),
                Unindent(1),
                AddLine(
                  L(0, "}")),
                Blank >>
        ELSE <<>>))

\* part_traps_activation, lines 877-911.
part_traps_activation(c, ws) ==
    Do(ws,
       (IF c.err_trap # 0
        THEN << AddLine(
                  L(0, "trap err_trap ERR")),
                Blank >>
        ELSE <<>>)
       \o
       (CASE c.exit_trap = 0 -> <<>>
          [] c.exit_trap = 1 ->
               << AddLine(
                    L(0, "trap exit_trap EXIT")),
                  Blank >>
          [] c.exit_trap = 2 ->
               << AddLine(
                    L(0, "unset -v _temp_dir")),
                  AddLine(
                    L(0, "trap exit_trap EXIT")),
                  AddLine(
                    IF c.set_e
                    THEN
                    L(0, "_temp_dir=$(mktemp --directory)")
                    ELSE
                    L(0, "_temp_dir=$(mktemp --directory) || exit")
                    ),
                  Blank >>
          [] c.exit_trap = 3 ->
               << AddLine(
                    L(0, "unset -v _to_be_deleted")),
                  AddLine(
                    L(0, "_to_be_deleted=()")),
                  AddLine(
                    L(0, "trap exit_trap EXIT")),
                  AddLine(
                    IF c.set_e
                    THEN
                    L(0, "_some_dir=$(mktemp --directory)")
                    ELSE
                    L(0, "_some_dir=$(mktemp --directory) || exit")
                    ),
                  AddLine(
                    L(0, "_to_be_deleted+=(\"$_some_dir\")")),
                  Blank >>))

\* The usage line of the help blurb, lines 937-949.
UsageLine(c) ==
    IF c.options
    THEN IF c.positionals
         THEN
         L(0, "${prog} [OPTIONS]... FOO [BAR]")
         ELSE
         L(0, "${prog} [OPTIONS]...")
    ELSE IF c.positionals
         THEN
         L(0, "${prog} FOO [BAR]")
         ELSE
         L(0, "<No arguments>")

\* part_usage_function, lines 914-996.  Inside the here-document the main
\* Writer's indent size is 2; the finally clause restores the initial one.
part_usage_function(c, ws) ==
    IF c.usage = 0 THEN ws
    ELSE
    LET initial_indent_size == ws.main.indent_size IN
    Do(ws,
       << AddLines(
            << L(12, "print_help() {"),
               L(16, "local prog"),
               L(16, "prog=$(printf '%q' \"$0\")"),
               L(16, "cat << _HELP_"),
               L(12, "") >>,
            FALSE),
          SetIndentSize(2),
          Blank,
          Indent(1),
          AddLine(
            L(0, "Perform blah blah on a blah blah.")),
          Blank,
          AddLine(
            L(0, "Usage:")),
          Indent(1),
          AddLine(UsageLine(c)),
          Unindent(1),
          Blank >>
       \o
       (IF c.positionals
        THEN << AddLine(
                  L(0, "Arguments:")),
                Indent(1),
                AddLine(
                  L(0, "FOO     The foo to process.")),
                AddLine(
                  L(0, "BAR     (Optional) A bar in which to write the plop.")),
                AddLine(
                  L(8, "This allows to blah blah.")),
                AddLine(
                  L(8, "Default: ``${DEFAULT_BAR}''")),
                Unindent(1),
                Blank >>
        ELSE <<>>)
       \o
       (IF c.usage = 1 \/ c.options
        THEN << AddLine(
                  L(0, "Options:")),
                Indent(1) >>
        ELSE <<>>)
       \o
       (IF c.options
        THEN << AddLine(
                  L(0, "-y, --yo            Turn on yo mode.")),
                AddLine(
                  L(0, "-p, --plop PLOP     Use PLOP as the plop.")) >>
             \o (IF c.dry
                 THEN << AddLine(
                           L(0, "--dry               Turn dry mode on.")) >>
                 ELSE <<>>)
        ELSE <<>>)
       \o
       (IF c.usage = 1
        THEN << AddLine(
                  L(0, "-h, --help          Print this message and exit.")) >>
        ELSE <<>>)
       \o
       (IF c.usage = 1 \/ c.options
        THEN << Unindent(1), Blank >>
        ELSE <<>>)
       \o
       << AddLine(
            L(0, "Environment variables:")),
          Indent(1),
          AddLine(
            L(0, "GIT_USER    Username for requests to GitHub.")) >>
       \o
       (IF c.dry
        THEN << AddLine(
                  L(0, "DRY         If not empty, turn dry mode on.")),
                AddLine(
                  L(12, "``Important'' commands will be skipped.")) >>
        ELSE <<>>)
       \o
       << Unindent(2),
          AddLines(
            << L(0, ""),
               L(8, "_HELP_"),
               L(8, "}"),
               L(0, ""),
               L(8, "") >>,
            FALSE),
          SetIndentSize(initial_indent_size) >>)

\* subpart_print_help_if_no_arg, lines 1230-1238: the calls it makes.
subpart_print_help_if_no_arg(c) ==
    IF c.usage = 2
    THEN << AddLines(
              << L(12, "if (($# == 0))"),
                 L(12, "then"),
                 L(16, "print_help"),
                 L(16, "exit 1"),
                 L(12, "fi") >>,
              FALSE),
            Blank >>
    ELSE <<>>

\* subpart_handle_help_request_without_fancy_option_parsing, lines 1241-1255.
subpart_handle_help_request_without_fancy_option_parsing(c, with_local_vars) ==
    (IF c.usage = 1
     THEN (IF with_local_vars
           THEN << AddLine(
                     L(0, "local arg")) >>
           ELSE <<>>)
          \o
          << AddLines(
               << L(12, "for arg"),
                  L(12, "do"),
                  L(16, "if [[ ${arg,,} = @(-h|+(-)help) ]]"),
                  L(16, "then"),
                  L(20, "print_help"),
                  L(20, "exit 0"),
                  L(16, "fi"),
                  L(12, "done") >>,
               FALSE),
             Blank >>
     ELSE <<>>)
    \o subpart_print_help_if_no_arg(c)

\* subpart_parse_command_function_options_and_positionals, lines 999-1091.
subpart_parse_command_function_options_and_positionals(c) ==
    << AddLines(
         << L(8, "# Fill up global ``opt_*'' and ``arg_*'' variables according to given"),
            L(8, "# options and positional parameters, and perform basic checks"),
            L(8, "# on the presence of mandatory info."),
            L(8, "#"),
            L(8, "# $@    Arguments originally passed to the script itself."),
            L(8, "parse_command() {") >>,
         FALSE),
       Indent(1) >>
    \o subpart_print_help_if_no_arg(c)
    \o
    << AddLines(
         << L(8, "# Clear all option-related variables before parsing."),
            L(8, "unset -v \"${!opt_@}\""),
            L(0, ""),
            L(8, "local param"),
            L(8, "local -a positionals=()"),
            L(8, "while (($# > 0))"),
            L(8, "do"),
            L(12, "param=$1"),
            L(12, "shift"),
            L(12, "case $param in"),
            L(16, "-y|--yo)"),
            L(20, "opt_yo=1"),
            L(20, ";;"),
            L(0, ""),
            L(16, "-p|--plop)"),
            L(20, "opt_plop=${1:?Missing argument for option: ${param}}"),
            L(20, "shift"),
            L(20, ";;"),
            L(0, ""),
            L(8, "") >>,
         FALSE) >>
    \o
    (IF c.dry
     THEN << AddLines(
               << L(8, "--dry)"),
                  L(12, "DRY=1"),
                  L(12, ";;"),
                  L(12, "") >>,
               TRUE) >>
     ELSE <<>>)
    \o
    (IF c.usage = 1
     THEN << AddLines(
               << L(8, "-h|--help)"),
                  L(12, "print_help"),
                  L(12, "exit 0"),
                  L(12, ";;"),
                  L(8, "") >>,
               TRUE) >>
     ELSE <<>>)
    \o
    (IF c.usage # 0
     THEN << AddLines(
               << L(8, "-*)"),
                  L(12, "print_help >&2") >>,
               TRUE) >>
     ELSE << AddLines(
               << L(8, "-*)") >>,
               TRUE) >>)
    \o
    << Indent(3),
       AddLine(
         IF c.logging_utils
         THEN
         L(0, "err 'Invalid option: %q' \"$param\"")
         ELSE
         L(0, "printf '%s: Error: Invalid option: %q\\n' \"$(basename \"$0\")\" \"$param\" >&2")
         ),
       Unindent(4),
       AddLines(
         << L(16, "exit 1"),
            L(16, ";;"),
            L(0, ""),
            L(12, "*)"),
            L(16, "positionals+=(\"$param\")"),
            L(16, ";;"),
            L(8, "esac"),
            L(4, "done"),
            L(0, ""),
            L(4, "set -- \"${positionals[@]}\""),
            L(4, "arg_foo=$1"),
            L(4, "arg_bar=${2:-${DEFAULT_BAR}}"),
            L(0, ""),
            L(4, "if [[ -z $arg_foo ]]"),
            L(4, "then") >>,
         TRUE),
       Indent(2) >>
    \o
    (IF c.usage # 0
     THEN << AddLine(
               L(0, "print_help")) >>
     ELSE <<>>)
    \o
    << AddLine(
         IF c.logging_utils
         THEN
         L(0, "err 'Missing mandatory parameter: foo'")
         ELSE
         L(0, "printf '%s: Error: Missing mandatory parameter: foo\\n' \"$(basename \"$0\")\"")
         ),
       AddLine(
         L(0, "exit 1")),
       Unindent(1),
       AddLine(
         L(0, "fi >&2")),
       Unindent(1),
       AddLine(
         L(0, "}")),
       Blank >>

\* subpart_parse_command_function_options_only, lines 1094-1161.
subpart_parse_command_function_options_only(c) ==
    << AddLines(
         << L(8, "# Fill up global ``opt_*'' variables according to given options"),
            L(8, "# and perform basic checks on the presence of mandatory info."),
            L(8, "#"),
            L(8, "# $@    Arguments originally passed to the script itself."),
            L(8, "parse_command() {") >>,
         FALSE),
       Indent(1) >>
    \o subpart_print_help_if_no_arg(c)
    \o
    << AddLines(
         << L(8, "# Clear all option-related variables before parsing."),
            L(8, "unset -v \"${!opt_@}\""),
            L(0, ""),
            L(8, "local param"),
            L(8, "while (($# > 0))"),
            L(8, "do"),
            L(12, "param=$1"),
            L(12, "shift"),
            L(12, "case $param in"),
            L(16, "-y|--yo)"),
            L(20, "opt_yo=1"),
            L(20, ";;"),
            L(0, ""),
            L(16, "-p|--plop)"),
            L(20, "opt_plop=${1:?Missing argument for option: ${param}}"),
            L(20, "shift"),
            L(20, ";;"),
            L(0, ""),
            L(8, "") >>,
         FALSE) >>
    \o
    (IF c.dry
     THEN << AddLines(
               << L(8, "--dry)"),
                  L(12, "DRY=1"),
                  L(12, ";;"),
                  L(12, "") >>,
               TRUE) >>
     ELSE <<>>)
    \o
    (IF c.usage = 1
     THEN << AddLines(
               << L(8, "-h|--help)"),
                  L(12, "print_help"),
                  L(12, "exit 0"),
                  L(12, ";;"),
                  L(8, "") >>,
               TRUE) >>
     ELSE <<>>)
    \o
    (IF c.usage # 0
     THEN << AddLines(
               << L(8, "*)"),
                  L(12, "print_help >&2") >>,
               TRUE) >>
     ELSE << AddLines(
               << L(8, "*)") >>,
               TRUE) >>)
    \o
    << Indent(3),
       AddLine(
         IF c.logging_utils
         THEN
         L(0, "err 'Invalid option or extra parameter: %q' \"$param\"")
         ELSE
         L(0, "printf '%s: Error: Invalid option or extra parameter: %q\\n' \"$(basename \"$0\")\" \"$param\" >&2")
         ),
       Unindent(4),
       AddLines(
         << L(20, "exit 1"),
            L(20, ";;"),
            L(12, "esac"),
            L(8, "done"),
            L(4, "}") >>,
         FALSE) >>

\* subpart_parse_command_function_positionals_only, lines 1164-1191.
subpart_parse_command_function_positionals_only(c) ==
    << AddLines(
         << L(8, "# Fill up global ``arg_*'' variables according to given arguments"),
            L(8, "# and perform basic checks on the presence of mandatory info."),
            L(8, "#"),
            L(8, "# $@    Arguments originally passed to the script itself."),
            L(8, "parse_command() {") >>,
         FALSE),
       Indent(1) >>
    \o subpart_handle_help_request_without_fancy_option_parsing(c, TRUE)
    \o
    << AddLines(
         << L(8, "arg_foo=$1"),
            L(8, "arg_bar=${2:-${DEFAULT_BAR}}"),
            L(0, ""),
            L(8, "if [[ -z $arg_foo ]]"),
            L(8, "then") >>,
         FALSE),
       Indent(1) >>
    \o
    (IF c.usage # 0
     THEN << AddLine(
               L(0, "print_help")) >>
     ELSE <<>>)
    \o
    << AddLine(
         IF c.logging_utils
         THEN
         L(0, "err 'Missing mandatory parameter: foo'")
         ELSE
         L(0, "printf '%s: Error: Missing mandatory parameter: foo\\n' \"$(basename \"$0\")\" >&2")
         ),
       AddLine(
         L(0, "exit 1")),
       Unindent(1),
       AddLine(
         L(0, "fi >&2")),
       Unindent(1),
       AddLine(
         L(0, "}")),
       Blank >>

\* part_parse_command_function that defines the function for options and
\* positionals as soon as there is something to parse.
part_parse_command_function_both(c, ws) ==
    Do(ws,
       IF c.options \/ c.positionals
       THEN subpart_parse_command_function_options_and_positionals(c)
       ELSE <<>>)

\* part_parse_command_function, lines 1194-1207.
part_parse_command_function(c, ws) ==
    Do(ws,
       IF c.options
       THEN IF c.positionals
            THEN subpart_parse_command_function_options_and_positionals(c)
            ELSE subpart_parse_command_function_options_only(c)
       ELSE IF c.positionals
            THEN subpart_parse_command_function_positionals_only(c)
            ELSE <<>>)

\* subpart_log_option_values, lines 1210-1217.
subpart_log_option_values(c) ==
    IF c.logging_utils
    THEN << AddLine(
              L(0, "log 'Yo: %q; Plop: %q' \"$opt_yo\" \"$opt_plop\"")) >>
    ELSE << AddLine(
              L(0, "printf '%s: Yo: %q; Plop: %q\\n' \\")),
            Indent(2),
            AddLine(
              L(0, "\"$(basename \"$0\")\" \"$opt_yo\" \"$opt_plop\"")),
            Unindent(2) >>

\* subpart_log_parameter_values, lines 1220-1227.
subpart_log_parameter_values(c) ==
    IF c.logging_utils
    THEN << AddLine(
              L(0, "log 'Foo: %q; Bar: %q' \"$arg_foo\" \"$arg_bar\"")) >>
    ELSE << AddLine(
              L(0, "printf '%s: Foo: %q; Bar: %q\\n' \\")),
            Indent(2),
            AddLine(
              L(0, "\"$(basename \"$0\")\" \"$arg_foo\" \"$arg_bar\"")),
            Unindent(2) >>

\* part_parse_command_call, lines 1258-1282.
part_parse_command_call(c, ws) ==
    LET the_call == "parse_command \"$@\"" IN
    Do(ws,
       IF c.options
       THEN IF c.positionals
            THEN << Ln(the_call), Blank >>
                 \o subpart_log_option_values(c)
                 \o subpart_log_parameter_values(c)
                 \o << Blank >>
            ELSE << Ln(the_call), Blank >>
                 \o subpart_log_option_values(c)
                 \o << Blank >>
       ELSE IF c.positionals
            THEN << Ln(the_call) >>
                 \o subpart_log_parameter_values(c)
                 \o << Blank >>
            ELSE subpart_handle_help_request_without_fancy_option_parsing(
                    c, c.main))

\* part_start_main_part, lines 1285-1291.
part_start_main_part(c, ws) ==
    Do(ws,
       IF c.main
       THEN << AddLine(
                 L(0, "main() {")),
               Indent(1) >>
       ELSE << AddLine(
                 L(0, "# ================================")),
               Blank >>)

\* part_end_main_part that registers nothing.
part_end_main_part_nothing(c, ws) == ws

\* part_end_main_part, lines 1294-1304.
part_end_main_part(c, ws) ==
    Do(ws,
       IF c.main
       THEN << AddLine(
                 L(0, "return 0")),
               Unindent(1),
               AddLines(
                 << L(8, "}"),
                    L(0, ""),
                    L(8, "main \"$@\"") >>,
                 FALSE) >>
       ELSE << Blank,
               AddLine(
                 L(0, "exit 0")) >>)

\* The instruction with the dry-run prefix whatever the configuration.
part_dummy_business_instructions_always_dry(c, ws) ==
    Do(ws,
       IF c.logging_utils
       THEN << Ln("run_if_not_dry log 'TODO'") >>
       ELSE << Ln("run_if_not_dry echo 'TODO'") >>)

\* part_dummy_business_instructions, lines 1307-1313.
part_dummy_business_instructions(c, ws) ==
    LET prefix == IF c.dry THEN "run_if_not_dry " ELSE "" IN
    Do(ws,
       IF c.logging_utils
       THEN << Ln(prefix \o "log 'TODO'") >>
       ELSE << Ln(prefix \o "echo 'TODO'") >>)

\* The calls with the traps activated before the main part is started.
Parts_activation_first ==
    << "part_shebang", "part_flags", "part_basedir", "part_constants",
       "part_logging_utils", "part_dry_run_utils", "part_libraries",
       "part_traps_definition", "part_usage_function",
       "part_parse_command_function", "part_traps_activation",
       "part_start_main_part", "part_parse_command_call",
       "part_dummy_business_instructions", "part_end_main_part" >>

\* The calls of the __main__ block that register the lines of the future
\* file, lines 1351-1366, in order.
Parts ==
    << "part_shebang", "part_flags", "part_basedir", "part_constants",
       "part_logging_utils", "part_dry_run_utils", "part_libraries",
       "part_traps_definition", "part_usage_function",
       "part_parse_command_function", "part_start_main_part",
       "part_traps_activation", "part_parse_command_call",
       "part_dummy_business_instructions", "part_end_main_part" >>

\* The call of one fragment generator.
CallPart(name, c, ws) ==
    CASE name = "part_shebang" -> part_shebang(c, ws)
      [] name = "part_flags" -> part_flags(c, ws)
      [] name = "part_basedir" -> part_basedir(c, ws)
      [] name = "part_constants" -> part_constants(c, ws)
      [] name = "part_logging_utils" -> part_logging_utils(c, ws)
      [] name = "part_dry_run_utils" -> part_dry_run_utils(c, ws)
      [] name = "part_libraries" -> part_libraries(c, ws)
      [] name = "part_traps_definition" -> part_traps_definition(c, ws)
      [] name = "part_usage_function" -> part_usage_function(c, ws)
      [] name = "part_parse_command_function" ->
           part_parse_command_function(c, ws)
      [] name = "part_start_main_part" -> part_start_main_part(c, ws)
      [] name = "part_traps_activation" -> part_traps_activation(c, ws)
      [] name = "part_parse_command_call" -> part_parse_command_call(c, ws)
      [] name = "part_dummy_business_instructions" ->
           part_dummy_business_instructions(c, ws)
      [] name = "part_end_main_part" -> part_end_main_part(c, ws)

----------------------------------------------------------------------------
(* The questions.                                                          *)

\* A lower() that leaves the capitals as they are.
lower_nothing(ch) == ch

\* str.lower on one character.
lower(ch) ==
    CASE ch = "Y" -> "y"
      [] ch = "N" -> "n"
      [] OTHER -> ch

\* "x" in choice.lower().
contains(choice, x) == \E i \in DOMAIN choice : lower(choice[i]) = x

\* One turn of the loop of ask_yes_or_no, lines 406-422, on the text that
\* input() returned: the value returned, or nothing when the loop goes on.
ask_yes_or_no(choice, default) ==
    LET y == contains(choice, "y")
        n == contains(choice, "n")
    IN  CASE y /\ ~n -> Some(TRUE)
          [] ~y /\ n -> Some(FALSE)
          [] y /\ n -> None
          [] ~y /\ ~n -> IF default # None THEN default ELSE None

Digits == [i \in 1..10 |-> ToString(i - 1)]

\* int(answer), for an answer of decimal digits: <<value>>, or None for the
\* ValueError any other answer raises.
int(answer) ==
    LET digit(ch) == CHOOSE d \in 0..9 : Digits[d + 1] = ch
        value[i \in 0..Len(answer)] ==
            IF i = 0 THEN 0 ELSE 10 * value[i - 1] + digit(answer[i])
    IN  IF answer # <<>>
           /\ \A i \in DOMAIN answer : \E d \in 0..9 : Digits[d + 1] = answer[i]
        THEN Some(value[Len(answer)])
        ELSE None

\* One turn of the loop of ask_choice, lines 358-372.
ask_choice(answer, n_options, default) ==
    IF answer = <<>> /\ default # None THEN default
    ELSE LET choice == int(answer)
         IN  IF choice # None /\ 1 <= choice[1] /\ choice[1] <= n_options
             THEN Some(choice[1] - 1)
             ELSE None

\* ask_questions_default_level with two questions exchanged.
ask_questions_default_level_swapped ==
    << "logging_utils", "positionals", "options", "usage", "utils" >>

\* The fields that ask_questions_default_level, ask_questions_advanced_level
\* and ask_questions_full_level set, in the order of their questions.
ask_questions_default_level ==
    << "logging_utils", "options", "positionals", "usage", "utils" >>

ask_questions_advanced_level ==
    << "set_e", "set_x", "err_trap", "exit_trap", "dry" >>

ask_questions_full_level == << "use_env", "greadlink", "main" >>

QuestionGroups ==
    << ask_questions_default_level, ask_questions_advanced_level,
       ask_questions_full_level >>

\* ask_questions with the first condition forgotten: the default questions
\* are asked at every level.
GroupAsked_batch_asks(level, g) ==
    CASE g = 1 -> TRUE
      [] g = 2 -> level \in {"advanced", "full"}
      [] g = 3 -> level = "full"

\* The conditions of ask_questions, lines 666-673, on the three groups.
GroupAsked(level, g) ==
    CASE g = 1 -> level # "batch"
      [] g = 2 -> level \in {"advanced", "full"}
      [] g = 3 -> level = "full"

\* The position after the last question: ask_questions returns.
NoQuestion == <<4, 0>>

RECURSIVE NextQuestion(_, _)
\* The question that follows position pos = <<group, index>> at a level.
NextQuestion(level, pos) ==
    IF pos[1] > Len(QuestionGroups) THEN NoQuestion
    ELSE IF GroupAsked(level, pos[1]) /\ pos[2] < Len(QuestionGroups[pos[1]])
         THEN <<pos[1], pos[2] + 1>>
         ELSE NextQuestion(level, <<pos[1] + 1, 0>>)

\* The number of options of the multiple-choice questions.
NumberOfOptions ==
    [ usage |-> 4, utils |-> 3, err_trap |-> 3, exit_trap |-> 4 ]

\* What the operator may type at a yes / no question and at a choice.
YesNoInputs == { <<>>, <<"y">>, <<"N">>, <<"Y", "n">>, <<"o", "k">> }

ChoiceInputs ==
    { <<>>, <<"1">>, <<"2">>, <<"3">>, <<"4">>, <<"5">>, <<"0">>, <<"x">> }

\* One turn of the question that sets a field: the new value of the field as
\* <<v>>, or None when the question is prompted again.
\* The question on utils (lines 581-601) is a choice when an output file was
\* asked for; it is else a yes / no question on embedding, whose answer is
\* converted to 0 or 1.
AskField(field, answer, c, output) ==
    IF field = "utils" /\ output = None
    THEN LET embed == ask_yes_or_no(answer, Some(c.utils = 0))
         IN  IF embed = None THEN None
             ELSE Some(IF embed[1] THEN 0 ELSE 1)
    ELSE IF FieldType[field] = "bool"
         THEN ask_yes_or_no(answer, Some(c[field]))
         ELSE ask_choice(answer, NumberOfOptions[field], Some(c[field]))

\* The inputs that can be typed at the question on a field.
InputsOf(field, output) ==
    IF FieldType[field] = "bool" \/ (field = "utils" /\ output = None)
    THEN YesNoInputs
    ELSE ChoiceInputs

----------------------------------------------------------------------------
(* Paths and outputs.                                                      *)

\* template.format(n=n), line 311, and the default name for n = 1.
UtilsName(n) ==
    IF n = 1 THEN COMMON_BASENAME
    ELSE COMMON_BASENAME_WITHOUT_EXTENSION \o "-" \o ToString(n)
         \o COMMON_BASENAME_EXTENSION

\* The loop of compute_utils_path that takes the first suffixed name without
\* looking whether it exists.
alternate_name_unchecked(d, n, files) == <<join(d, UtilsName(n))>>

RECURSIVE alternate_name(_, _, _)
\* The loop of compute_utils_path, lines 312-318: the paths it probes from
\* n on, the last of which is the one it returns.
alternate_name(d, n, files) ==
    LET res == join(d, UtilsName(n))
    IN  IF res \in files
        THEN <<res>> \o alternate_name(d, n + 1, files)
        ELSE <<res>>

\* compute_utils_path that looks for a free name even when it is asked to
\* overwrite.
compute_utils_path_never_overwrites(mw, c, files) ==
    IF mw.file = None THEN [path |-> None, probed |-> <<>>]
    ELSE IF mw.file = devnull THEN [path |-> devnull, probed |-> <<>>]
    ELSE
    LET d == dirname(mw.file)
        path_using_default_name == join(d, COMMON_BASENAME)
    IN  IF path_using_default_name \notin files
        THEN [ path |-> path_using_default_name,
               probed |-> <<path_using_default_name>> ]
        ELSE LET tried == alternate_name(d, 2, files)
             IN  [ path |-> tried[Len(tried)],
                   probed |-> <<path_using_default_name>> \o tried ]

\* compute_utils_path, lines 283-318, for the main Writer mw, the
\* configuration c and the set of the paths that exist: the path returned
\* and the paths given to os.path.exists, in order.
compute_utils_path(mw, c, files) ==
    IF mw.file = None THEN [path |-> None, probed |-> <<>>]
    ELSE IF c.utils = 0 THEN [path |-> <<"RuntimeError">>, probed |-> <<>>]
    ELSE IF mw.file = devnull THEN [path |-> devnull, probed |-> <<>>]
    ELSE
    LET overwrite == c.utils = 1
        d == dirname(mw.file)
        path_using_default_name == join(d, COMMON_BASENAME)
    IN  IF overwrite
        THEN [path |-> path_using_default_name, probed |-> <<>>]
        ELSE IF path_using_default_name \notin files
        THEN [ path |-> path_using_default_name,
               probed |-> <<path_using_default_name>> ]
        ELSE LET tried == alternate_name(d, 2, files)
             IN  [ path |-> tried[Len(tried)],
                   probed |-> <<path_using_default_name>> \o tried ]

\* Writer.print_output_lines, lines 53-92, of Writer w, which is the main
\* Writer or not: what it writes, as a sequence of no or one output.  An
\* output is a file (dest is its path) or a blurb on the standard output
\* (dest is None) that the banners label with "what".
print_output_lines(w, is_main) ==
    LET what == IF is_main THEN "script template" ELSE "utils" IN
    IF w.file = devnull THEN <<>>
    ELSE IF w.file # None
    THEN << [ dest |-> w.file, what |-> what, text |-> w.output_lines,
              executable |-> is_main ] >>
    ELSE << [ dest |-> None, what |-> what, text |-> w.output_lines,
              executable |-> FALSE ] >>

RECURSIVE strip_trailing_blank(_)
\* The loop of print_bash, lines 520-521.
strip_trailing_blank(lines) ==
    IF lines[Len(lines)] = L(0, "")
    THEN strip_trailing_blank(SubSeq(lines, 1, Len(lines) - 1))
    ELSE lines

\* print_bash that prints the utility Writer to a file only.
utils_printed_to_file_only(c, uw) ==
    c.utils # 0 /\ uw.output_lines # <<>> /\ uw.file # None

\* print_bash, lines 513-521: whether the utility Writer is printed, and
\* its lines then.
utils_printed(c, uw) == c.utils # 0 /\ uw.output_lines # <<>>

\* print_bash that adds no header to the utility Writer.
utils_lines_without_header(c, uw) == strip_trailing_blank(uw.output_lines)

\* The lines of the utility Writer once print_bash has added the header and
\* removed the trailing blank lines, lines 516-521.
utils_lines(c, uw) ==
    strip_trailing_blank(<<L(0, get_shebang(c)), L(0, "")>> \o uw.output_lines)

\* print_config, lines 526-551: what it writes when args.dump_config is
\* output and args.indent_size is indent_size.
print_config(c, output, indent_size) ==
    IF output = None THEN <<>>
    ELSE << [ dest |-> IF output = STDOUT_PLACEHOLDER THEN None ELSE output,
              what |-> "config",
              text |-> json_dumps(asdict(c), indent_size),
              executable |-> FALSE ] >>

\* The main and utility artifacts among the outputs of a run (those of
\* print_bash, line 1369), and the utility ones.
Artifacts(outs) == SelectSeq(outs, LAMBDA o : o.what # "config")

UtilsArtifacts(outs) == SelectSeq(outs, LAMBDA o : o.what = "utils")

\* The files that a sequence of outputs creates.
FilesOf(outs) == {outs[i].dest : i \in {j \in DOMAIN outs : outs[j].dest # None}}

----------------------------------------------------------------------------
(* The inputs of a run.                                                    *)

\* The values argparse accepts for -l / --level, line 188.
LevelChoices == LevelOfDetails \cup DOMAIN LEVEL_OF_DETAILS_ALIASES

\* The values of -o / --output: absent, a file, the null device.
OutputChoices == { None, <<"out", "script.sh">>, devnull }

\* The values of -d / --dump-config: absent, the standard output, a file.
\* print_config alone reads the option, so its value is drawn there and is
\* not kept in args.
DumpChoices == { None, STDOUT_PLACEHOLDER, <<"out", "conf.json">> }

\* The values of -i / --indent-size.
IndentChoices == { 2, DefaultIndentSize }

\* A JSON object given as a string: its members.
Json(members) == [indent |-> 0, members |-> members]

\* The JSON texts of the model: two configurations, and one with a key
\* that is no field.
TextDryUtils == Json(<< <<"utils", "2">>, <<"dry", "true">> >>)

TextNoLogging ==
    Json(<< <<"logging_utils", "false">>, <<"utils", "1">>,
            <<"usage", "2">>, <<"options", "false">> >>)

TextUnknownKey == Json(<< <<"utils", "1">>, <<"verbose", "true">> >>)

\* The values of -c / --load-config: a JSON string, or the path of a file
\* that holds the text.
LoadChoices ==
    { [is_path |-> FALSE, text |-> TextDryUtils],
      [is_path |-> TRUE, text |-> TextNoLogging],
      [is_path |-> FALSE, text |-> TextUnknownKey] }

\* The values of -b / --base-config.
BaseChoices ==
    { [is_path |-> TRUE, text |-> TextDryUtils],
      [is_path |-> TRUE, text |-> TextUnknownKey] }

Optional(S) == {None} \cup {Some(x) : x \in S}

----------------------------------------------------------------------------
(* The run.                                                                *)

Init ==
    /\ pc = "parse_args"
    /\ args \in [ level : LevelChoices, output : OutputChoices,
                  indent_size : IndentChoices,
                  load_config : Optional(LoadChoices),
                  base_config : Optional(BaseChoices) ]
    /\ conf = None
    /\ main_writer = None
    /\ utils_writer = None
    /\ qpos = NoQuestion
    /\ prompts = 0
    /\ changes = 0
    /\ asked = <<>>
    /\ fs = {}
    /\ probes = <<>>
    /\ outputs = <<>>
    /\ error = None
    /\ exit_status = None
    /\ run = 1
    /\ prev = None

\* parse_args that keeps the level asked for when a configuration is loaded.
parse_args_keeps_level(a) ==
    IF a.load_config # None /\ a.base_config # None THEN None
    ELSE Some([a EXCEPT
                 !.level = IF a.level \in DOMAIN LEVEL_OF_DETAILS_ALIASES
                           THEN LEVEL_OF_DETAILS_ALIASES[a.level]
                           ELSE a.level,
                 !.base_config = IF a.load_config = None THEN a.base_config
                                 ELSE a.load_config])

\* parse_args, lines 200-249, on the values of the command line: the
\* Namespace it returns, or None when argparse rejects -c given with -b.
parse_args(a) ==
    IF a.load_config # None /\ a.base_config # None THEN None
    ELSE IF a.load_config = None
    THEN Some([a EXCEPT !.level =
                  IF a.level \in DOMAIN LEVEL_OF_DETAILS_ALIASES
                  THEN LEVEL_OF_DETAILS_ALIASES[a.level]
                  ELSE a.level])
    ELSE Some([a EXCEPT !.level = "batch", !.base_config = a.load_config])

\* args = parse_args(), line 1322.  argparse exits with status 2 on two
\* options of a mutually exclusive group.
ParseArgs ==
    /\ pc = "parse_args"
    /\ LET a == parse_args(args)
       IN  IF a = None
           THEN /\ pc' = "exit"
                /\ exit_status' = Some(2)
                /\ error' = Some([type |-> "ArgumentError", note |-> <<>>])
                /\ args' = args
           ELSE /\ pc' = "main_writer"
                /\ args' = a[1]
                /\ UNCHANGED <<exit_status, error>>
    /\ UNCHANGED <<conf, main_writer, utils_writer, qpos, prompts, changes,
                   asked, fs, probes, outputs, run, prev>>

\* Both Writers created at once, before the configuration is acquired.
CreateMainWriter_both ==
    /\ pc = "main_writer"
    /\ main_writer' = Writer(args.indent_size, args.output)
    /\ utils_writer' = Writer(args.indent_size, None)
    /\ pc' = "conf"
    /\ UNCHANGED <<args, conf, qpos, prompts, changes, asked,
                   fs, probes, outputs, error, exit_status, run, prev>>

\* main_writer = Writer(...), lines 1323-1326.
CreateMainWriter ==
    /\ pc = "main_writer"
    /\ main_writer' = Writer(args.indent_size, args.output)
    /\ pc' = "conf"
    /\ UNCHANGED <<args, conf, utils_writer, qpos, prompts, changes, asked,
                   fs, probes, outputs, error, exit_status, run, prev>>

\* conf = FileConfig() or load_config(args.base_config), lines 1327-1331.
\* The TypeError of load_config is not caught: the process ends with
\* status 1.  Otherwise ask_questions is entered, at its first question.
CreateConf ==
    /\ pc = "conf"
    /\ LET loaded == IF args.base_config = None
                     THEN [ok |-> TRUE, result |-> FileConfig]
                     ELSE load_config(args.base_config[1])
       IN  IF loaded.ok
           THEN /\ conf' = loaded.result
                /\ pc' = "ask_questions"
                /\ qpos' = NextQuestion(args.level, <<1, 0>>)
                /\ UNCHANGED <<error, exit_status>>
           ELSE /\ error' = Some(loaded.error)
                /\ exit_status' = Some(1)
                /\ pc' = "exit"
                /\ UNCHANGED <<conf, qpos>>
    /\ UNCHANGED <<args, main_writer, utils_writer, prompts, changes, asked,
                   fs, probes, outputs, run, prev>>

\* The question of the current position.
CurrentField == QuestionGroups[qpos[1]][qpos[2]]

\* The questions displayed once the current one is.
AskedNow == IF prompts = 0 THEN Append(asked, CurrentField) ELSE asked

\* One input() of the current question of ask_questions (line 1334): the
\* answer either sets the field and leads to the next question, or is not
\* valid and the question is prompted again.
Answer ==
    /\ pc = "ask_questions"
    /\ qpos # NoQuestion
    /\ \E answer \in InputsOf(CurrentField, args.output) :
          LET got == AskField(CurrentField, answer, conf, args.output) IN
          IF got = None
          THEN /\ prompts < MaxReprompts
               /\ prompts' = prompts + 1
               /\ UNCHANGED <<conf, qpos, changes>>
          ELSE /\ \/ /\ got[1] = conf[CurrentField]
                     /\ changes' = changes
                  \/ /\ got[1] # conf[CurrentField]
                     /\ changes < MaxChanges
                     /\ changes' = changes + 1
               /\ conf' = [conf EXCEPT ![CurrentField] = got[1]]
               /\ qpos' = NextQuestion(args.level, qpos)
               /\ prompts' = 0
    /\ asked' = AskedNow
    /\ UNCHANGED <<pc, args, main_writer, utils_writer, fs, probes, outputs,
                   error, exit_status, run, prev>>

\* An interrupt that is handled as any other failure: status 1.
Interrupt_status_1 ==
    /\ pc = "ask_questions"
    /\ qpos # NoQuestion
    /\ asked' = AskedNow
    /\ pc' = "exit"
    /\ exit_status' = Some(1)
    /\ error' = Some([type |-> "KeyboardInterrupt", note |-> <<>>])
    /\ UNCHANGED <<args, conf, main_writer, utils_writer, qpos, prompts,
                   changes, fs, probes, outputs, run, prev>>

\* KeyboardInterrupt during an input() of ask_questions, lines 1335-1338.
Interrupt ==
    /\ pc = "ask_questions"
    /\ qpos # NoQuestion
    /\ asked' = AskedNow
    /\ pc' = "exit"
    /\ exit_status' = Some(130)
    /\ error' = Some([type |-> "KeyboardInterrupt", note |-> <<>>])
    /\ UNCHANGED <<args, conf, main_writer, utils_writer, qpos, prompts,
                   changes, fs, probes, outputs, run, prev>>


\* The utility Writer created whatever utils is.
CreateUtilsWriter_always ==
    /\ pc = "ask_questions"
    /\ qpos = NoQuestion
    /\ utils_writer' = Writer(args.indent_size, None)
    /\ pc' = "part_shebang"
    /\ UNCHANGED <<args, conf, main_writer, qpos, prompts, changes, asked,
                   fs, probes, outputs, error, exit_status, run, prev>>

\* The utility files that may exist in directory d before the run.
Candidates(d) == {join(d, UtilsName(n)) : n \in 1..MaxSuffix}

\* The creation of utils_writer, lines 1340-1348, once ask_questions has
\* returned.  The content of the directory is an input that only
\* compute_utils_path reads, when the main artifact is a file: it is drawn
\* here, in the first run.
CreateUtilsWriter ==
    /\ pc = "ask_questions"
    /\ qpos = NoQuestion
    /\ IF conf.utils = 0
       THEN /\ utils_writer' = None
            /\ UNCHANGED <<fs, probes>>
       ELSE \E existing \in SUBSET Candidates("out") :
               LET r == compute_utils_path(main_writer, conf, fs \cup existing)
               IN  /\ (main_writer.file \in {None, devnull} \/ run > 1)
                         => existing = {}
                   /\ utils_writer' = Writer(args.indent_size, r.path)
                   /\ probes' = probes \o r.probed
                   /\ fs' = fs \cup existing
    /\ pc' = Parts[1]
    /\ UNCHANGED <<args, conf, main_writer, qpos, prompts, changes, asked,
                   outputs, error, exit_status, run, prev>>

\* The name of the step that follows the fragment generator of index i.
AfterPart(i) == IF i < Len(Parts) THEN Parts[i + 1] ELSE "print_bash"

\* One of the calls of lines 1351-1366.
ComposePart ==
    /\ \E i \in DOMAIN Parts :
          /\ pc = Parts[i]
          /\ LET ws == CallPart(Parts[i], conf, Writers(main_writer, utils_writer))
             IN  /\ main_writer' = ws.main
                 /\ utils_writer' = ws.utils
          /\ pc' = AfterPart(i)
    /\ UNCHANGED <<args, conf, qpos, prompts, changes, asked, fs, probes,
                   outputs, error, exit_status, run, prev>>

\* print_bash(), lines 506-523.
PrintBash ==
    /\ pc = "print_bash"
    /\ LET printed == utils_printed(conf, utils_writer)
           uw == IF printed
                 THEN [utils_writer EXCEPT
                         !.output_lines = utils_lines(conf, utils_writer)]
                 ELSE utils_writer
           written == print_output_lines(main_writer, TRUE)
                      \o (IF printed THEN print_output_lines(uw, FALSE)
                          ELSE <<>>)
       IN  /\ utils_writer' = uw
           /\ outputs' = outputs \o written
           /\ fs' = fs \cup FilesOf(written)
    /\ pc' = "print_config"
    /\ UNCHANGED <<args, conf, main_writer, qpos, prompts, changes, asked,
                   probes, error, exit_status, run, prev>>

\* print_config(), line 1370, and the end of the run.
PrintConfig ==
    /\ pc = "print_config"
    /\ \E dump_config \in DumpChoices :
          LET written == print_config(conf, dump_config, args.indent_size)
          IN  /\ outputs' = outputs \o written
              /\ fs' = fs \cup FilesOf(written)
    /\ pc' = "exit"
    /\ exit_status' = Some(0)
    /\ UNCHANGED <<args, conf, main_writer, utils_writer, qpos, prompts,
                   changes, asked, probes, error, run, prev>>

\* The program is run again on what the first run left, with the same
\* command line and a configuration equal to the one of the first run; prev
\* keeps the artifacts of the first run.
Rerun ==
    /\ pc = "exit"
    /\ exit_status = Some(0)
    /\ run = 1
    /\ run' = 2
    /\ prev' = Some([outputs |-> Artifacts(outputs), conf |-> conf])
    /\ outputs' = <<>>
    /\ probes' = <<>>
    /\ main_writer' = Writer(args.indent_size, args.output)
    /\ utils_writer' = None
    /\ exit_status' = None
    /\ pc' = "ask_questions"
    /\ UNCHANGED <<args, conf, qpos, prompts, changes, asked, fs, error>>

Next ==
    \/ ParseArgs
    \/ CreateMainWriter
    \/ CreateConf
    \/ Answer
    \/ Interrupt
    \/ CreateUtilsWriter
    \/ ComposePart
    \/ PrintBash
    \/ PrintConfig

Spec == Init /\ [][Next]_vars

NextTwice == Next \/ Rerun

\* The command lines of the two runs in succession: the configuration comes
\* from -b and the questions, at the default indent width.
InitTwice ==
    /\ Init
    /\ args.indent_size = DefaultIndentSize
    /\ args.load_config = None

\* Two runs in succession.
SpecTwice == InitTwice /\ [][NextTwice]_vars


----------------------------------------------------------------------------
(* The dump of a configuration and its load.                               *)

\* Every FileConfig whose fields are in their domains.
FileConfigs ==
    [ use_env : BOOLEAN, greadlink : BOOLEAN, logging_utils : BOOLEAN,
      set_e : BOOLEAN, set_x : BOOLEAN, err_trap : 0..2, exit_trap : 0..3,
      main : BOOLEAN, options : BOOLEAN, positionals : BOOLEAN, usage : 0..3,
      dry : BOOLEAN, utils : 0..2 ]

\* A run that is about to call print_config, with any configuration: the
\* full level of questions leads to every one of them.
InitDump ==
    /\ pc = "print_config"
    /\ args \in [ level : {"full"}, output : {None},
                  indent_size : {DefaultIndentSize}, load_config : {None},
                  base_config : {None} ]
    /\ conf \in FileConfigs
    /\ main_writer = Writer(args.indent_size, args.output)
    /\ utils_writer = None
    /\ qpos = NoQuestion
    /\ prompts = 0
    /\ changes = 0
    /\ asked = <<>>
    /\ fs = {}
    /\ probes = <<>>
    /\ outputs = <<>>
    /\ error = None
    /\ exit_status = None
    /\ run = 1
    /\ prev = None

\* The program is run again with -c on the configuration that the first run
\* dumped: as a path when it was dumped to a file, as a string (copied from
\* the standard output) otherwise.
Reload ==
    /\ pc = "exit"
    /\ exit_status = Some(0)
    /\ run = 1
    /\ outputs # <<>>
    /\ LET dumped == outputs[Len(outputs)] IN
       /\ dumped.what = "config"
       /\ \E level \in LevelChoices :
             args' = parse_args(
                        [args EXCEPT
                           !.level = level,
                           !.base_config = None,
                           !.load_config =
                              Some([ is_path |-> dumped.dest # None,
                                     text |-> dumped.text ])])[1]
    /\ run' = 2
    /\ prev' = Some([outputs |-> outputs, conf |-> conf])
    /\ outputs' = <<>>
    /\ probes' = <<>>
    /\ conf' = None
    /\ main_writer' = Writer(args.indent_size, args.output)
    /\ utils_writer' = None
    /\ exit_status' = None
    /\ pc' = "conf"
    /\ UNCHANGED <<qpos, prompts, changes, asked, fs, error>>

NextDump ==
    \/ PrintConfig
    \/ Reload
    \/ CreateConf

\* A configuration is dumped, and loaded by a second run.
SpecDump == InitDump /\ [][NextDump]_vars


----------------------------------------------------------------------------
(* add_lines alone.                                                        *)

\* The lines of the blocks: text at zero to three levels of four spaces,
\* the indentation that add_lines expects (lines 476-477), an empty line and
\* a line of white space.
LineChoices ==
    {L(4 * k, "x") : k \in 0..3} \cup {L(0, ""), L(4, "")}

\* The text blocks of one to MaxLines lines.
Blocks == UNION {[1..n -> LineChoices] : n \in 1..MaxLines}

\* A Writer at depth 0 and a call of add_lines about to be made on a block,
\* with or without keep_indentation.
InitLines ==
    /\ pc = "add_lines"
    /\ args \in [text : Blocks, keep_indentation : BOOLEAN]
    /\ main_writer \in {Writer(w, None) : w \in IndentChoices}
    /\ conf = None
    /\ utils_writer = None
    /\ qpos = NoQuestion
    /\ prompts = 0
    /\ changes = 0
    /\ asked = <<>>
    /\ fs = {}
    /\ probes = <<>>
    /\ outputs = <<>>
    /\ error = None
    /\ exit_status = None
    /\ run = 1
    /\ prev = None

\* indent() before the call.
IndentCall ==
    /\ pc = "add_lines"
    /\ main_writer.current_indent_steps < MaxDepth
    /\ main_writer' = indent(main_writer, 1)
    /\ UNCHANGED <<pc, args, conf, utils_writer, qpos, prompts, changes,
                   asked, fs, probes, outputs, error, exit_status, run, prev>>

\* add_lines(text, keep_indentation).
AddLinesCall ==
    /\ pc = "add_lines"
    /\ main_writer' = add_lines(main_writer, args.text, args.keep_indentation)
    /\ pc' = "added"
    /\ UNCHANGED <<args, conf, utils_writer, qpos, prompts, changes, asked,
                   fs, probes, outputs, error, exit_status, run, prev>>

NextLines ==
    \/ IndentCall
    \/ AddLinesCall

SpecLines == InitLines /\ [][NextLines]_vars

----------------------------------------------------------------------------
(* ask_yes_or_no alone.                                                    *)

\* What the operator may type: up to MaxTyped characters.
TypedChoices ==
    UNION {[1..n -> {"y", "Y", "n", "N", "o", "k"}] : n \in 0..MaxTyped}

\* ask_yes_or_no is called with a default or without one; args keeps the
\* default, the last text that input() returned and the value returned.
InitYesNo ==
    /\ pc = "input"
    /\ args \in [ default : {None, Some(TRUE), Some(FALSE)},
                  choice : {None}, returned : {None} ]
    /\ main_writer = None
    /\ conf = None
    /\ utils_writer = None
    /\ qpos = NoQuestion
    /\ prompts = 0
    /\ changes = 0
    /\ asked = <<>>
    /\ fs = {}
    /\ probes = <<>>
    /\ outputs = <<>>
    /\ error = None
    /\ exit_status = None
    /\ run = 1
    /\ prev = None

\* One turn of the loop of lines 406-422: the function returns, or logs an
\* error and calls input() again, any number of times.
YesNoInput ==
    /\ pc = "input"
    /\ \E choice \in TypedChoices :
          LET got == ask_yes_or_no(choice, args.default)
          IN  /\ args' = [args EXCEPT !.choice = Some(choice),
                                      !.returned = got]
              /\ pc' = IF got = None THEN "input" ELSE "returned"
    /\ UNCHANGED <<conf, main_writer, utils_writer, qpos, prompts, changes,
                   asked, fs, probes, outputs, error, exit_status, run, prev>>

NextYesNo == YesNoInput

SpecYesNo == InitYesNo /\ [][NextYesNo]_vars

----------------------------------------------------------------------------
(* Properties.                                                             *)

PartNames == {Parts[i] : i \in DOMAIN Parts}

\* The run ended with status 0.
Completed == pc = "exit" /\ exit_status = Some(0)

\* ask_questions has returned.
Elicited ==
    \/ pc = "ask_questions" /\ qpos = NoQuestion
    \/ pc \in PartNames \cup {"print_bash", "print_config"}
    \/ Completed

\* utils_writer has been assigned.
WritersCreated == pc \in PartNames \cup {"print_bash", "print_config"} \/ Completed

\* print_bash has returned.
Finalized == pc = "print_config" \/ Completed

\* The run was ended by an exception of the given type.
Raised(type) == error # None /\ error[1].type = type

\* Every form the sourcing line can take.
SourcingLines ==
    { SourcingLine([set_e |-> e], name) :
        e \in BOOLEAN,
        name \in {COMMON_BASENAME, basename(devnull)}
                 \cup {UtilsName(n) : n \in 1..(MaxSuffix + 1)} }

C2_RoundTrip ==
    run = 2 =>
        /\ error = None
        /\ pc = "ask_questions" =>
              \A f \in FieldSet : conf[f] = prev[1].conf[f]

C2_Witness ==
    /\ run = 2
    /\ pc = "ask_questions"
    /\ conf = [ use_env |-> FALSE, greadlink |-> TRUE, logging_utils |-> FALSE,
                set_e |-> TRUE, set_x |-> TRUE, err_trap |-> 2,
                exit_trap |-> 3, main |-> TRUE, options |-> FALSE,
                positionals |-> FALSE, usage |-> 3, dry |-> TRUE, utils |-> 2 ]
    /\ prev[1].conf = conf

\* The text given with -c or -b has a key that is no field of FileConfig.
HasUnknownKey(source) ==
    \E i \in DOMAIN source.text.members :
        source.text.members[i][1] \notin FieldSet

\* C3: a configuration with a key that is no field makes the run fail with
\* an error whose note lists every field name, before any question, and
\* nothing is written.
C3_UnknownKeyFails ==
    (/\ pc \notin {"parse_args", "main_writer", "conf"}
     /\ ~Raised("ArgumentError")
     /\ args.base_config # None
     /\ HasUnknownKey(args.base_config[1]))
    => /\ pc = "exit"
       /\ Raised("TypeError")
       /\ \A f \in FieldSet :
             \E i \in DOMAIN error[1].note[2] : error[1].note[2][i] = f
       /\ exit_status \notin {None, Some(0)}
       /\ asked = <<>>
       /\ outputs = <<>>
       /\ fs = {}

C3_Witness ==
    /\ pc = "exit"
    /\ Raised("TypeError")
    /\ args.load_config # None
    /\ HasUnknownKey(args.load_config[1])

\* C4: with -c the level is batch whatever level was asked for, no question
\* is asked, and the configuration is the loaded object with the absent
\* fields at their defaults.
C4_LoadForcesBatch ==
    (pc # "parse_args" /\ args.load_config # None /\ error = None)
    => /\ args.level = "batch"
       /\ asked = <<>>
       /\ pc \notin {"main_writer", "conf"} =>
             conf = CASE args.load_config[1].text = TextDryUtils ->
                           [FileConfig EXCEPT !.utils = 2, !.dry = TRUE]
                      [] args.load_config[1].text = TextNoLogging ->
                           [FileConfig EXCEPT !.logging_utils = FALSE,
                                              !.utils = 1, !.usage = 2,
                                              !.options = FALSE]

C4_Witness ==
    /\ pc = "print_bash"
    /\ args.load_config # None
    /\ args.load_config[1].text = TextNoLogging
    /\ conf.usage = 2
    /\ conf.positionals

\* C5: at batch level without -c or -b, no question is asked and the
\* configuration is the default one in every field.
C5_BatchDefaults ==
    (/\ pc \notin {"parse_args", "main_writer", "conf"}
     /\ args.level = "batch"
     /\ args.base_config = None)
    => /\ asked = <<>>
       /\ conf = [ use_env |-> TRUE, greadlink |-> FALSE,
                   logging_utils |-> TRUE, set_e |-> FALSE, set_x |-> FALSE,
                   err_trap |-> 0, exit_trap |-> 0, main |-> FALSE,
                   options |-> TRUE, positionals |-> TRUE, usage |-> 1,
                   dry |-> FALSE, utils |-> 0 ]

C5_Witness ==
    /\ Completed
    /\ args.level = "batch"
    /\ args.base_config = None
    /\ conf = FileConfig

\* C6: an interrupt can come at every question; it ends the run with status
\* 130, which no other end has, and then nothing was written, no utility
\* Writer was created and no path was probed.
C6_Cancellation ==
    /\ (pc = "ask_questions" /\ qpos # NoQuestion) => ENABLED Interrupt
    /\ Raised("KeyboardInterrupt") =>
          /\ pc = "exit"
          /\ exit_status = Some(130)
          /\ outputs = <<>>
          /\ fs = {}
          /\ probes = <<>>
          /\ utils_writer = None
          /\ main_writer.output_lines = <<>>
    /\ exit_status = Some(130) => Raised("KeyboardInterrupt")

C6_Witness ==
    /\ Raised("KeyboardInterrupt")
    /\ args.level = "full"
    /\ args.output = <<"out", "script.sh">>
    /\ asked[Len(asked)] = "main"

\* C7: the questions asked are, in this order, none at batch level, the
\* first five of the list at default level, the first ten at advanced level
\* and all thirteen at full level; each is asked once.
C7_LevelHierarchy ==
    (pc # "parse_args" /\ ~Raised("ArgumentError"))
    => LET all == << "logging_utils", "options", "positionals", "usage",
                     "utils", "set_e", "set_x", "err_trap", "exit_trap",
                     "dry", "use_env", "greadlink", "main" >>
           count == CASE args.level = "batch" -> 0
                      [] args.level = "default" -> 5
                      [] args.level = "advanced" -> 10
                      [] args.level = "full" -> 13
       IN  /\ Len(asked) <= count
           /\ asked = SubSeq(all, 1, Len(asked))
           /\ Elicited => Len(asked) = count

C7_Witness ==
    /\ pc = "part_shebang"
    /\ args.level = "advanced"
    /\ Len(asked) = 10
    /\ asked[10] = "dry"

\* C8: with utils = 0 once the questions are over, the utility Writer is
\* never created, the main Writer holds no sourcing line and no utility
\* artifact is written.
C8_UtilityRouting ==
    (Elicited /\ conf.utils = 0)
    => /\ utils_writer = None
       /\ \A i \in DOMAIN main_writer.output_lines :
             main_writer.output_lines[i].txt \notin SourcingLines
       /\ UtilsArtifacts(outputs) = <<>>
       /\ Len(Artifacts(outputs)) <= 1

C8_Witness ==
    /\ Completed
    /\ conf.utils = 0
    /\ conf.logging_utils
    /\ conf.dry
    /\ args.output = <<"out", "script.sh">>
    /\ Len(Artifacts(outputs)) = 1

\* C9: for a main artifact that is a file and utils # 0, the path of the
\* utility file is common.sh in the directory of the main artifact when
\* utils = 1, and when utils = 2 it is common.sh if that is free and
\* otherwise common-n.sh for the least n >= 2 that is free; common.sh and
\* common-2.sh existing give common-3.sh.
C9_PathResolution ==
    (/\ pc \in PartNames \cup {"print_bash"}
     /\ conf.utils # 0
     /\ args.output \notin {None, devnull})
    => LET d == args.output[1]
           file == utils_writer.file
           numbered(n) == <<d, "common-" \o ToString(n) \o ".sh">>
       IN  /\ conf.utils = 1 => file = <<d, "common.sh">>
           /\ (conf.utils = 2 /\ <<d, "common.sh">> \notin fs)
                 => file = <<d, "common.sh">>
           /\ (conf.utils = 2 /\ <<d, "common.sh">> \in fs)
                 => \E n \in 2..(MaxSuffix + 1) :
                       /\ file = numbered(n)
                       /\ numbered(n) \notin fs
                       /\ \A m \in 2..(n - 1) : numbered(m) \in fs
           /\ (/\ conf.utils = 2
               /\ {<<d, "common.sh">>, <<d, "common-2.sh">>} \subseteq fs
               /\ <<d, "common-3.sh">> \notin fs)
                 => file = <<d, "common-3.sh">>

C9_Witness ==
    /\ pc = "print_bash"
    /\ conf.utils = 2
    /\ fs = {<<"out", "common.sh">>, <<"out", "common-2.sh">>}
    /\ utils_writer.file = <<"out", "common-3.sh">>

\* C10 as stated: with the main artifact on the standard output and
\* utils # 0, no utility path is computed, no line is placed in the utility
\* Writer and no utility artifact is emitted.
C10_StdoutNoUtilities ==
    (WritersCreated /\ args.output = None /\ conf.utils # 0)
    => /\ probes = <<>>
       /\ utils_writer.file = None
       /\ utils_writer.output_lines = <<>>
       /\ UtilsArtifacts(outputs) = <<>>

\* C10, amended: with the main artifact on the standard output and
\* utils # 0, no utility path is computed and no utility file is written;
\* the logging and dry-run helpers are placed in the utility Writer, which
\* is printed on the standard output as a blurb of its own whenever it holds
\* a line, that is when logging_utils or dry is set.
C10_StdoutUtilitiesBlurb ==
    (WritersCreated /\ args.output = None /\ conf.utils # 0)
    => /\ probes = <<>>
       /\ utils_writer.file = None
       /\ \A i \in DOMAIN outputs :
             outputs[i].what = "utils" => outputs[i].dest = None
       /\ pc \in {"print_bash", "print_config", "exit"} =>
             (utils_writer.output_lines # <<>>
                <=> (conf.logging_utils \/ conf.dry))
       /\ Finalized =>
             (Len(UtilsArtifacts(outputs)) = 1
                <=> (conf.logging_utils \/ conf.dry))
       /\ Finalized =>
             (Len(UtilsArtifacts(outputs)) = 0
                <=> ~(conf.logging_utils \/ conf.dry))

C10_Witness ==
    /\ Finalized
    /\ args.output = None
    /\ conf.utils = 2
    /\ Len(UtilsArtifacts(outputs)) = 1
    /\ outputs[2].what = "utils"
    /\ outputs[2].dest = None
    /\ outputs[2].text # <<>>


\* The outputs that a step adds.
Written == SubSeq(outputs', Len(outputs) + 1, Len(outputs'))

\* C11: print_bash always drains the main Writer (to its destination, the
\* null device taking nothing), and drains the utility Writer exactly when
\* utils # 0 and it holds a line; then the header and a blank line are put
\* first at that moment, the header is the first line of the main artifact,
\* the trailing blank lines are gone and what is written ends with a line
\* that is not blank.
C11_Finalizer ==
    [][ (pc = "print_bash" /\ pc' = "print_config") =>
          LET holds == utils_writer # None /\ utils_writer.output_lines # <<>>
              drained == conf.utils # 0 /\ holds
              before == utils_writer.output_lines
              after == utils_writer'.output_lines
              kept == Len(after) - 2
          IN  /\ main_writer' = main_writer
              /\ IF args.output = devnull
                 THEN Written = <<>>
                 ELSE /\ Written # <<>>
                      /\ Written[1] =
                            [ dest |-> args.output, what |-> "script template",
                              text |-> main_writer.output_lines,
                              executable |-> args.output # None ]
                      /\ Len(Written) = 1 + Len(UtilsArtifacts(Written))
              /\ (UtilsArtifacts(Written) # <<>>)
                    <=> (drained /\ utils_writer.file # devnull)
              /\ ~drained => utils_writer' = utils_writer
              /\ drained =>
                    /\ before[1] # main_writer.output_lines[1]
                    /\ after[1] = main_writer.output_lines[1]
                    /\ after[1] = L(0, get_shebang(conf))
                    /\ after[2] = L(0, "")
                    /\ kept >= 1 /\ kept <= Len(before)
                    /\ SubSeq(after, 3, Len(after)) = SubSeq(before, 1, kept)
                    /\ \A i \in (kept + 1)..Len(before) : before[i] = L(0, "")
                    /\ ~is_blank(after[Len(after)])
                    /\ utils_writer.file # devnull =>
                          UtilsArtifacts(Written) =
                             << [ dest |-> utils_writer.file, what |-> "utils",
                                  text |-> after, executable |-> FALSE ] >>
      ]_vars

C11_Witness ==
    /\ Finalized
    /\ conf.utils = 2
    /\ conf.dry
    /\ conf.logging_utils
    /\ args.output = <<"out", "script.sh">>
    /\ Len(outputs) >= 2
    /\ outputs[2].what = "utils"
    /\ outputs[2].dest = <<"out", "common.sh">>
    /\ outputs[2].text[1] = outputs[1].text[1]
    /\ outputs[2].text = utils_writer.output_lines


\* The section that a line of the main artifact opens or belongs to, for the
\* lines that only one section can hold; 0 for any other line.
Section(txt) ==
    CASE txt \in {"#! /usr/bin/env bash", "#! /bin/bash"} -> 1
      [] txt \in {"set -e", "set -E", "set -x", "set -eE", "set -ex",
                  "set -Ex", "set -eEx"} -> 2
      [] txt = "readonly BASEDIR ROOTDIR" -> 3
      [] txt = "readonly DEFAULT_BAR=/the/default/bar" -> 4
      [] txt = "log() {" -> 5
      [] txt = "run_if_not_dry() {" -> 6
      [] txt \in SourcingLines -> 7
      [] txt \in {"err_trap() {", "exit_trap() {"} -> 8
      [] txt = "print_help() {" -> 9
      [] txt = "parse_command() {" -> 10
      [] txt \in {"main() {", "# ================================"} -> 11
      [] txt \in {"trap err_trap ERR", "trap exit_trap EXIT"} -> 12
      [] txt = "parse_command \"$@\"" -> 13
      [] txt \in {"log 'TODO'", "echo 'TODO'", "run_if_not_dry log 'TODO'",
                  "run_if_not_dry echo 'TODO'"} -> 14
      [] txt \in {"return 0", "main \"$@\""} -> 15
      [] OTHER -> 0

\* The sections of these lines never go back, and a section comes once: two
\* lines of the same section follow each other only where the section has
\* two such lines.
InSectionOrder(lines) ==
    LET last[i \in 0..Len(lines)] ==
          IF i = 0 THEN 0
          ELSE IF Section(lines[i].txt) # 0 THEN Section(lines[i].txt)
               ELSE last[i - 1]
    IN  \A i \in DOMAIN lines :
           LET here == Section(lines[i].txt) IN
           here # 0 =>
              \/ last[i - 1] < here
              \/ last[i - 1] = here /\ here \in {8, 12, 15}

\* C12: the fragment generators are called once each, in the order header,
\* flags, base directory, constants, logging helpers, dry-run helpers,
\* sourcing line, trap definitions, usage function, argument-parsing
\* function, entry-point opening, trap activation, argument-parsing
\* invocation, placeholder logic, entry-point closing; and the sections of
\* the main artifact are in that order.
C12_SectionOrder ==
    [][ LET order == << "part_shebang", "part_flags", "part_basedir",
                        "part_constants", "part_logging_utils",
                        "part_dry_run_utils", "part_libraries",
                        "part_traps_definition", "part_usage_function",
                        "part_parse_command_function",
                        "part_start_main_part", "part_traps_activation",
                        "part_parse_command_call",
                        "part_dummy_business_instructions",
                        "part_end_main_part" >>
            called == {order[i] : i \in DOMAIN order}
        IN  /\ pc' \in called => (pc' = order[1] <=> pc \notin called)
            /\ pc \in called =>
                  \E i \in DOMAIN order :
                     /\ pc = order[i]
                     /\ pc' = IF i < Len(order) THEN order[i + 1]
                              ELSE "print_bash"
                     /\ main_writer' =
                           CallPart(order[i], conf,
                                    Writers(main_writer, utils_writer)).main
            /\ pc \notin called => \/ main_writer' = main_writer
                                   \/ main_writer'.output_lines = <<>>
            /\ (pc = "print_bash" /\ pc' = "print_config") =>
                  /\ Section(main_writer.output_lines[1].txt) = 1
                  /\ InSectionOrder(main_writer.output_lines)
                  /\ args.output # devnull =>
                        Written[1].text = main_writer.output_lines
      ]_vars

C12_Witness ==
    /\ pc = "print_config"
    /\ conf.utils = 0
    /\ conf.dry
    /\ args.output = None
    /\ Len(outputs) = 1
    /\ \E i, j, k \in DOMAIN outputs[1].text :
          /\ i < j /\ j < k
          /\ outputs[1].text[i].txt = "log() {"
          /\ outputs[1].text[j].txt = "run_if_not_dry() {"
          /\ outputs[1].text[k].txt = "run_if_not_dry log 'TODO'"
    /\ outputs[1].text[Len(outputs[1].text)].txt = "exit 0"


\* The lines that capture, assign or read the positional parameters and the
\* constant that is the default of one of them.
PositionalLines ==
    { "local -a positionals=()", "positionals+=(\"$param\")",
      "set -- \"${positionals[@]}\"", "arg_foo=$1",
      "arg_bar=${2:-${DEFAULT_BAR}}", "if [[ -z $arg_foo ]]",
      "readonly DEFAULT_BAR=/the/default/bar",
      "log 'Foo: %q; Bar: %q' \"$arg_foo\" \"$arg_bar\"",
      "\"$(basename \"$0\")\" \"$arg_foo\" \"$arg_bar\"",
      "Default: ``${DEFAULT_BAR}''" }

\* The lines of the case statement on the flags.
FlagCaseLines ==
    { "case $param in", "-y|--yo)", "-p|--plop)", "opt_yo=1",
      "opt_plop=${1:?Missing argument for option: ${param}}", "--dry)",
      "-h|--help)", "esac" }

\* The lines that the two Writers hold.
AllLines ==
    main_writer.output_lines
    \o (IF utils_writer = None THEN <<>> ELSE utils_writer.output_lines)

\* C13: with options and without positionals no line captures, assigns or
\* reads a positional parameter or defines DEFAULT_BAR; without options and
\* with positionals no line belongs to a case statement on the flags.
C13_ArgumentShape ==
    WritersCreated =>
       /\ (conf.options /\ ~conf.positionals) =>
             \A i \in DOMAIN AllLines : AllLines[i].txt \notin PositionalLines
       /\ (~conf.options /\ conf.positionals) =>
             \A i \in DOMAIN AllLines : AllLines[i].txt \notin FlagCaseLines

C13_Witness ==
    /\ Finalized
    /\ conf.options
    /\ ~conf.positionals
    /\ \E i, j \in DOMAIN main_writer.output_lines :
          /\ i < j
          /\ main_writer.output_lines[i].txt = "parse_command() {"
          /\ main_writer.output_lines[j].txt = "case $param in"
    /\ \E i \in DOMAIN main_writer.output_lines :
          main_writer.output_lines[i].txt = "parse_command \"$@\""


\* C14: add_lines without keep_indentation takes the margin common to the
\* lines that are not blank away; then a line that is not blank and is left
\* with k groups of four spaces, added at depth d with indent width w, is
\* stored with (d + k) * w spaces before its text, and a blank line is
\* stored empty.  One and two levels at depth 0 and width 2 give 2 and 4
\* spaces.
C14_IndentationConversion ==
    (pc = "added" /\ ~args.keep_indentation) =>
       LET text == args.text
           stored == main_writer.output_lines
           d == main_writer.current_indent_steps
           w == main_writer.indent_size
           full == {i \in DOMAIN text : text[i].txt # ""}
           margin == IF full = {} THEN 0
                     ELSE CHOOSE m \in 0..12 :
                             /\ \E i \in full : text[i].ind = m
                             /\ \A i \in full : text[i].ind >= m
       IN  /\ Len(stored) =
                 IF text[Len(text)].txt = "" THEN Len(text) - 1 ELSE Len(text)
           /\ \A i \in DOMAIN stored :
                 IF text[i].txt = ""
                 THEN stored[i] = L(0, "")
                 ELSE \E k \in 0..3 :
                         /\ text[i].ind - margin = 4 * k
                         /\ stored[i] = L((d + k) * w, text[i].txt)
           /\ (d = 0 /\ w = 2 /\ text = <<L(0, "x"), L(4, "x"), L(8, "x")>>)
                 => stored = <<L(0, "x"), L(2, "x"), L(4, "x")>>

C14_Witness ==
    /\ pc = "added"
    /\ ~args.keep_indentation
    /\ args.text = <<L(4, "x"), L(4, ""), L(12, "x")>>
    /\ main_writer.current_indent_steps = 1
    /\ main_writer.indent_size = 2
    /\ main_writer.output_lines = <<L(2, "x"), L(0, ""), L(6, "x")>>


\* C15: whatever the case of the letters, the question returns true on an
\* answer with a y and no n, false on an answer with an n and no y, asks
\* again on an answer with both, and on an answer with neither returns the
\* default if there is one and asks again if there is none; it returns in no
\* other way, and it can ask again as long as the answers are such.
C15_YesNo ==
    args.choice # None =>
       LET choice == args.choice[1]
           y == \E i \in DOMAIN choice : choice[i] \in {"y", "Y"}
           n == \E i \in DOMAIN choice : choice[i] \in {"n", "N"}
       IN  /\ pc \in {"input", "returned"}
           /\ (y /\ ~n) => (pc = "returned" /\ args.returned = <<TRUE>>)
           /\ (n /\ ~y) => (pc = "returned" /\ args.returned = <<FALSE>>)
           /\ (y /\ n) => (pc = "input" /\ args.returned = <<>>)
           /\ (~y /\ ~n /\ args.default # <<>>) =>
                 (pc = "returned" /\ args.returned = args.default)
           /\ (~y /\ ~n /\ args.default = <<>>) =>
                 (pc = "input" /\ args.returned = <<>>)
           /\ pc = "input" => ENABLED (YesNoInput /\ pc' = "input")

C15_Witness ==
    /\ pc = "input"
    /\ args.default = <<>>
    /\ args.choice = << <<"o", "k">> >>
    /\ args.returned = <<>>
    /\ ENABLED (YesNoInput /\ pc' = "returned"
                /\ args'.choice = << <<"N">> >>
                /\ args'.returned = <<FALSE>>)


\* The number of the lines, among these, whose text is txt.
Count(lines, txt) == Cardinality({i \in DOMAIN lines : lines[i].txt = txt})

\* C16: the default configuration at batch level, printed on the standard
\* output, gives a main artifact whose first line is the header with env,
\* that holds the logging helpers and one parse_command function with both
\* the case statement on the flags and the capture of the positionals, that
\* has no main function, and whose last line is exit 0.
C16_EndToEnd ==
    (/\ Finalized
     /\ args.level = "batch"
     /\ args.base_config = None
     /\ args.output = None)
    => LET text == outputs[1].text IN
       /\ outputs[1].dest = None
       /\ outputs[1].what = "script template"
       /\ UtilsArtifacts(outputs) = <<>>
       /\ text[1] = L(0, "#! /usr/bin/env bash")
       /\ \A f \in {"_f_log() {", "log() {", "warn() {", "err() {"} :
             Count(text, f) = 1
       /\ Count(text, "parse_command() {") = 1
       /\ Count(text, "case $param in") = 1
       /\ Count(text, "-y|--yo)") = 1
       /\ Count(text, "positionals+=(\"$param\")") = 1
       /\ Count(text, "arg_foo=$1") = 1
       /\ Count(text, "parse_command \"$@\"") = 1
       /\ \A m \in {"main() {", "main \"$@\"", "return 0"} : Count(text, m) = 0
       /\ text[Len(text)] = L(0, "exit 0")

C16_Witness ==
    /\ Completed
    /\ args.level = "batch"
    /\ args.base_config = None
    /\ args.output = None
    /\ outputs[1].what = "script template"
    /\ outputs[1].text[1] = L(0, "#! /usr/bin/env bash")
    /\ outputs[1].text[Len(outputs[1].text)] = L(0, "exit 0")


\* The configuration before the questions: the default one, or the one of
\* the base configuration.
ConfBefore ==
    IF args.base_config = None THEN FileConfig
    ELSE load_config(args.base_config[1]).result

\* C17: when every question is answered with the empty response the
\* configuration after the questions is the one before them.  The questions
\* set one field each, so this is: at every question reached with the
\* configuration still as it was, the empty response gives the field the
\* value it has.
C17_ElicitationDefaults ==
    (pc = "ask_questions" /\ qpos # NoQuestion /\ conf = ConfBefore)
    => AskField(CurrentField, <<>>, conf, args.output)
          = Some(conf[CurrentField])


\* The lines that define the helpers the line of text txt calls or reads:
\* log and err, print_help, run_if_not_dry, DEFAULT_BAR, and the trap
\* bodies that trap activates.
Uses(txt) ==
    (IF txt \in { "log 'Running: %s' \"${*@Q}\"",
                  "log 'Would have run: %s' \"${*@Q}\"",
                  "log 'Exiting.'",
                  "log 'Yo: %q; Plop: %q' \"$opt_yo\" \"$opt_plop\"",
                  "log 'Foo: %q; Bar: %q' \"$arg_foo\" \"$arg_bar\"",
                  "log 'TODO'", "run_if_not_dry log 'TODO'" }
     THEN {"log() {"} ELSE {})
    \cup
    (IF txt \in { "err 'An error occurred.'",
                  "err 'Invalid option: %q' \"$param\"",
                  "err 'Invalid option or extra parameter: %q' \"$param\"",
                  "err 'Missing mandatory parameter: foo'" }
     THEN {"err() {"} ELSE {})
    \cup
    (IF txt \in {"print_help", "print_help >&2"}
     THEN {"print_help() {"} ELSE {})
    \cup
    (IF txt \in {"run_if_not_dry log 'TODO'", "run_if_not_dry echo 'TODO'"}
     THEN {"run_if_not_dry() {"} ELSE {})
    \cup
    (IF txt \in {"arg_bar=${2:-${DEFAULT_BAR}}", "Default: ``${DEFAULT_BAR}''"}
     THEN {"readonly DEFAULT_BAR=/the/default/bar"} ELSE {})
    \cup
    (IF txt = "trap err_trap ERR" THEN {"err_trap() {"} ELSE {})
    \cup
    (IF txt = "trap exit_trap EXIT" THEN {"exit_trap() {"} ELSE {})

\* Every helper that a line of mine uses is defined by a line before it in
\* mine, or by a line of the other Writer.
DefinedBeforeUse(mine, other) ==
    \A k \in DOMAIN mine :
       \A d \in Uses(mine[k].txt) :
          \/ \E j \in 1..(k - 1) : mine[j].txt = d
          \/ \E j \in DOMAIN other : other[j].txt = d

\* The lines the utility Writer holds, none when there is no such Writer.
UtilsLines == IF utils_writer = None THEN <<>> ELSE utils_writer.output_lines

\* C18: at every moment of the composition and after it, a line that calls
\* log or err, print_help or run_if_not_dry, that reads DEFAULT_BAR or that
\* activates err_trap or exit_trap comes after the line that defines the
\* helper, in the same Writer or in the other one.
C18_DefinitionBeforeUse ==
    WritersCreated =>
       /\ DefinedBeforeUse(main_writer.output_lines, UtilsLines)
       /\ DefinedBeforeUse(UtilsLines, main_writer.output_lines)

C18_Witness ==
    /\ Finalized
    /\ conf.utils # 0
    /\ ~conf.logging_utils
    /\ conf.usage # 0
    /\ \E j \in DOMAIN UtilsLines : UtilsLines[j].txt = "run_if_not_dry() {"
    /\ \A j \in DOMAIN UtilsLines : UtilsLines[j].txt # "log() {"
    /\ \E i, j, k \in DOMAIN main_writer.output_lines :
          /\ i < j /\ j < k
          /\ main_writer.output_lines[i].txt = "print_help() {"
          /\ main_writer.output_lines[j].txt \in {"print_help", "print_help >&2"}
          /\ main_writer.output_lines[k].txt = "run_if_not_dry echo 'TODO'"


\* The fragment generators that are given writer_config.
HelperParts == {"part_logging_utils", "part_dry_run_utils"}

\* The lines of w, a Writer or none.
LinesOf(w) == IF w = None THEN <<>> ELSE w.output_lines

\* The assignment of prog, added between indent and unindent at lines
\* 745-750, is stored right after the declaration of prog that the block of
\* lines 735-743 ends with, at the depth of that declaration.
ProgIndented(lines) ==
    \E k \in DOMAIN lines :
       /\ k + 1 \in DOMAIN lines
       /\ lines[k].txt = "local prog"
       /\ lines[k + 1].txt \in { "prog=$(basename \"$0\"):",
                                 "prog=$(basename \"$0\"):${DRY:+ [DRY RUN]}" }
       /\ lines[k + 1].ind = lines[k].ind

\* C19: a call of a fragment generator changes one Writer at most, lines
\* and depth: the generators of the logging and of the dry-run helpers
\* leave the main Writer as it was when utils is not 0 and have no other
\* Writer to change when utils is 0, and every other generator leaves the
\* utility Writer as it was.  The line the logging generator adds between
\* its indent and its unindent is stored, at the depth they give, in the
\* Writer that received the lines around it.
C19_Routing ==
    [][ \A i \in DOMAIN Parts :
           (pc = Parts[i] /\ pc' = AfterPart(i)) =>
              /\ IF Parts[i] \in HelperParts /\ conf.utils # 0
                 THEN main_writer' = main_writer
                 ELSE utils_writer' = utils_writer
              /\ conf.utils = 0 => utils_writer' = None
              /\ (Parts[i] = "part_logging_utils" /\ conf.logging_utils) =>
                    /\ ProgIndented(IF conf.utils = 0
                                    THEN main_writer'.output_lines
                                    ELSE utils_writer'.output_lines)
                    /\ main_writer'.current_indent_steps
                          = main_writer.current_indent_steps
                    /\ conf.utils # 0 =>
                          utils_writer'.current_indent_steps
                             = utils_writer.current_indent_steps
      ]_vars

C19_Witness ==
    /\ pc = "part_libraries"
    /\ conf.utils # 0
    /\ conf.logging_utils
    /\ conf.dry
    /\ ProgIndented(LinesOf(utils_writer))
    /\ \E j \in DOMAIN LinesOf(utils_writer) :
          utils_writer.output_lines[j].txt = "run_if_not_dry() {"
    /\ \A j \in DOMAIN main_writer.output_lines :
          main_writer.output_lines[j].txt
             \notin {"local prog", "log() {", "run_if_not_dry() {"}
    /\ main_writer.output_lines # <<>>


\* The phase the step named p belongs to: argument parsing and the creation
\* of the main Writer (0), configuration acquisition (1), elicitation and
\* the creation of the utility Writer that follows it (2), composition (3),
\* finalization (4), the end of the process (5).
Phase(p) ==
    CASE p \in {"parse_args", "main_writer"} -> 0
      [] p = "conf" -> 1
      [] p = "ask_questions" -> 2
      [] p \in PartNames -> 3
      [] p \in {"print_bash", "print_config"} -> 4
      [] p = "exit" -> 5

\* The number of times a Writer was drained as the given kind of output.
Drained(outs, what) ==
    Cardinality({i \in DOMAIN outs : outs[i].what = what})

\* What a step of a run keeps of the order of the phases: the phases follow
\* one another, a run that fails ends; the lines of a Writer change only
\* from composition on; the configuration is assigned by the acquisition
\* and changed only by an answer to a question; a destination is written
\* only by print_bash and print_config, and the Writers are drained by
\* print_bash, once each at most.
PhaseSteps ==
    /\ \/ Phase(pc') \in {Phase(pc), Phase(pc) + 1}
       \/ pc' = "exit" /\ error' # None
    /\ LinesOf(main_writer') # LinesOf(main_writer) => Phase(pc) = 3
    /\ LinesOf(utils_writer') # LinesOf(utils_writer) => Phase(pc) \in {3, 4}
    /\ conf' # conf =>
          \/ pc = "conf" /\ conf = None
          \/ pc = "ask_questions" /\ qpos # NoQuestion
    /\ outputs' # outputs => Phase(pc) = 4
    /\ \A what \in {"script template", "utils"} :
          /\ Drained(outputs', what) <= 1
          /\ Drained(outputs', what) # Drained(outputs, what)
                => pc = "print_bash"

\* The utility Writer is created once the questions are over.
UtilsWriterAfterElicitation ==
    (utils_writer = None /\ utils_writer' # None)
       => (pc = "ask_questions" /\ qpos = NoQuestion)

\* C20, as stated: the phases follow one another, and both Writers are
\* created after elicitation.
C20_PhaseOrdering ==
    [][ /\ PhaseSteps
        /\ UtilsWriterAfterElicitation
        /\ (main_writer = None /\ main_writer' # None)
              => (pc = "ask_questions" /\ qpos = NoQuestion)
      ]_vars

\* C20, amended: the phases follow one another; the main Writer is created
\* right after the arguments are parsed, before the configuration is
\* acquired, and holds no line until composition; the utility Writer is
\* created after elicitation.
C20_PhaseOrderingAmended ==
    [][ /\ PhaseSteps
        /\ UtilsWriterAfterElicitation
        /\ (main_writer = None /\ main_writer' # None)
              => (pc = "main_writer" /\ conf = None
                  /\ main_writer'.output_lines = <<>>)
        /\ Phase(pc') \in {1, 2} =>
              (main_writer' # None /\ main_writer'.output_lines = <<>>)
      ]_vars

C20_Witness ==
    /\ Completed
    /\ conf # ConfBefore
    /\ Len(outputs) = 3
    /\ outputs[1].what = "script template"
    /\ outputs[2].what = "utils"
    /\ outputs[1].dest # None
    /\ outputs[1].text = main_writer.output_lines


\* The Writers there are.
BothWriters == {w \in {main_writer, utils_writer} : w # None}

\* C21: from the creation of the Writers to the end of the run the depth of
\* a Writer is not negative, and has been negative at no call of a fragment
\* generator; once the last fragment generator has returned the depth of
\* both Writers is 0 and the indent width of the main Writer is the one of
\* the command line.
C21_IndentationBalance ==
    /\ \A w \in BothWriters :
          /\ w.current_indent_steps >= 0
          /\ w.lowest_indent_steps >= 0
    /\ (pc \in {"print_bash", "print_config"} \/ Completed) =>
          /\ \A w \in BothWriters : w.current_indent_steps = 0
          /\ main_writer.indent_size = args.indent_size

C21_Witness ==
    /\ pc = "print_bash"
    /\ conf.usage # 0
    /\ conf.options
    /\ conf.positionals
    /\ conf.logging_utils
    /\ conf.utils # 0
    /\ args.indent_size # 2
    /\ main_writer.indent_size = args.indent_size
    /\ \E i, j \in DOMAIN main_writer.output_lines :
          /\ i < j
          /\ main_writer.output_lines[i].txt = "Arguments:"
          /\ main_writer.output_lines[j].txt
                = "err 'Invalid option: %q' \"$param\""
          /\ main_writer.output_lines[j].ind >= 3 * args.indent_size
    /\ ProgIndented(utils_writer.output_lines)


\* C22: once print_bash has returned, a main artifact that holds the line
\* sourcing the utility file comes with a utility artifact of the same run.
C22_NoDanglingSourcing ==
    Finalized =>
       \A k \in DOMAIN outputs :
          (/\ outputs[k].what = "script template"
           /\ \E i \in DOMAIN outputs[k].text :
                 outputs[k].text[i].txt \in SourcingLines)
          => UtilsArtifacts(outputs) # <<>>

====
